---- MODULE Spec2Model ----
(***************************************************************************)
(* A model of pygeoops' centerline engine (src/pygeoops/_centerline.py):   *)
(* the public centerline() with its array overload, the per-polygon        *)
(* pipeline _centerline(), and the branch pruner                           *)
(* _remove_short_branches_notempty() / _remove_short_branches().           *)
(*                                                                         *)
(* Numbers are exact rationals [num, den]; a den of 0 stands for None.     *)
(* Skeleton lines are paths over the nodes of a small grid: a node stands  *)
(* for a coordinate, a grid edge for one Voronoi edge of length 1.         *)
(* The geometry kernel (shapely/GEOS) is outside the repository: what it   *)
(* answers for a polygon (does remove_repeated_points raise, which Voronoi *)
(* edges lie in the polygon, ...) is carried by the polygon record.        *)
(***************************************************************************)
EXTENDS Integers, Sequences, FiniteSets, TLC

VARIABLES
    \* centerline(): the call and its list comprehension
    geometry, params, cpc, result, returned, error,
    \* history of centerline(): the calls of _centerline that returned
    completed,
    \* _centerline(): the locals of the call in progress
    pc, geom, average_width, max_segment_length, geom_for_voronoi,
    voronoi_edges, lines, min_branch_length_cur, tol,
    \* history of the call in progress (not program state)
    stages, lines_extracted,
    \* _remove_short_branches_notempty() / _remove_short_branches()
    ppc, line, min_branch_length, remove_one_by_one, line_cleaned,
    \* history of the pruner (not program state)
    pass_parts, pass_removed

cvars == <<geometry, params, cpc, result, returned, error, completed>>
lvars == <<pc, geom, average_width, max_segment_length, geom_for_voronoi,
           voronoi_edges, lines, min_branch_length_cur, tol, stages,
           lines_extracted>>
pvars == <<ppc, line, min_branch_length, remove_one_by_one, line_cleaned,
           pass_parts, pass_removed>>
vars == <<cvars, lvars, pvars>>

-----------------------------------------------------------------------------
(* Bounds of the model *)

\* the skeleton grid has GridW x GridH nodes
GridW == 3
GridH == 3
\* min_branch_length ranges over 1..MaxK when the pruner is checked on its own
MaxK == 3
\* a batch holds at most MaxBatch geometries
MaxBatch == 2
\* the densify step is checked on rectangles with sides in 1..MaxSide, with up to
\* MaxExtra more vertices on one side, for distances down to -1/MaxFine
MaxSide == 5
MaxExtra == 2
MaxFine == 8

-----------------------------------------------------------------------------
(* Exact rational arithmetic, standing for Python floats *)

RECURSIVE GCD(_, _)
GCD(a, b) == IF b = 0 THEN a ELSE GCD(b, a % b)
\* the rational n / d in lowest terms (d >= 0; d = 0 is kept for None)
R(n, d) ==
    LET g == GCD(IF n < 0 THEN -n ELSE n, d)
    IN  IF d = 0 \/ g = 0 THEN [num |-> n, den |-> d]
        ELSE [num |-> n \div g, den |-> d \div g]
RInt(n) == R(n, 1)
NoneNum == R(0, 0)
IsNoneNum(a) == a.den = 0
RLt(a, b) == a.num * b.den < b.num * a.den
RLe(a, b) == a.num * b.den <= b.num * a.den
REq(a, b) == a.num * b.den = b.num * a.den
RAbs(a) == R(IF a.num < 0 THEN -a.num ELSE a.num, a.den)
RMul(a, b) == R(a.num * b.num, a.den * b.den)
RSub(a, b) == R(a.num * b.den - b.num * a.den, a.den * b.den)
\* a / b for b > 0
RDiv(a, b) == R(a.num * b.den, a.den * b.num)
RMax(a, b) == IF RLt(a, b) THEN b ELSE a
RZero == RInt(0)

\* floor of the square root of a natural number below 2^31, by bisection
RECURSIVE ISqrtIn(_, _, _)
ISqrtIn(n, lo, hi) ==
    IF lo >= hi THEN lo
    ELSE LET mid == (lo + hi + 1) \div 2
         IN  IF mid * mid <= n THEN ISqrtIn(n, mid, hi) ELSE ISqrtIn(n, lo, mid - 1)
ISqrt(n) == ISqrtIn(n, 0, IF n < 46340 THEN n ELSE 46340)
\* math.sqrt on a rational >= 0 (exact when num * den is a perfect square)
RSqrt(a) == R(ISqrt(a.num * a.den), a.den)
\* ceil(a / b) for rationals a >= 0, b > 0
RCeilDiv(a, b) ==
    LET n == a.num * b.den
        d == a.den * b.num
    IN  (n + d - 1) \div d

RECURSIVE SumSeq(_)
SumSeq(s) == IF s = <<>> THEN 0 ELSE Head(s) + SumSeq(Tail(s))

-----------------------------------------------------------------------------
(* Skeleton geometry: lines as paths over grid nodes *)

Nodes == 1..(GridW * GridH)
NodeX(n) == (n - 1) % GridW
NodeY(n) == (n - 1) \div GridW
AbsDiff(a, b) == IF a < b THEN b - a ELSE a - b
\* the Voronoi edges the kernel can produce: the unit edges of the grid
Segments ==
    {<<a, b>> \in Nodes \X Nodes :
        a < b /\ AbsDiff(NodeX(a), NodeX(b)) + AbsDiff(NodeY(a), NodeY(b)) = 1}

Rev(p) == [i \in 1..Len(p) |-> p[Len(p) + 1 - i]]
RECURSIVE PathLess(_, _)
PathLess(p, q) ==
    IF p = <<>> THEN q # <<>>
    ELSE IF q = <<>> THEN FALSE
    ELSE IF Head(p) # Head(q) THEN Head(p) < Head(q)
    ELSE PathLess(Tail(p), Tail(q))
\* one representative of a path and its reverse
Canon(p) == IF PathLess(Rev(p), p) THEN Rev(p) ELSE p

First(p) == p[1]
Last(p) == p[Len(p)]
PathNodes(p) == {p[i] : i \in 1..Len(p)}
\* shapely.length of a line: every grid edge has length 1
Length(p) == Len(p) - 1
\* shapely.intersects(line, Point(n))
Intersects(p, n) == n \in PathNodes(p)

\* the number of line ends of the set L at node n (a ring has two at its node)
EndCount(L, n) ==
    Cardinality({p \in L : First(p) = n}) + Cardinality({p \in L : Last(p) = n})

\* a node where exactly two different lines end: the kernel's line merger joins them
MergeNodes(L) ==
    {n \in Nodes :
        /\ EndCount(L, n) = 2
        /\ Cardinality({p \in L : First(p) = n \/ Last(p) = n}) = 2}

Join(p, q, n) ==
    LET a == IF Last(p) = n THEN p ELSE Rev(p)
        b == IF First(q) = n THEN q ELSE Rev(q)
    IN  Canon(a \o Tail(b))

\* a variant of MergeLines that joins nothing
MergeLinesNone(L) == L

RECURSIVE MergeLines(_)
MergeLines(L) ==
    IF MergeNodes(L) = {} THEN L
    ELSE LET n == CHOOSE m \in MergeNodes(L) : \A o \in MergeNodes(L) : m <= o
             two == {p \in L : First(p) = n \/ Last(p) = n}
             p == CHOOSE x \in two : TRUE
             q == CHOOSE x \in two : x # p
         IN  UNION {MergeLines(M) : M \in {(L \ two) \cup {Join(p, q, n)}}}

\* line geometries: LineString, MultiLineString, the empty GeometryCollection, None
LineGeom(k, P) == [kind |-> k, parts |-> P, moved |-> {}]
NoneLine == LineGeom("None", {})
IsNone(g) == g.kind = "None"
IsEmpty(g) == g.parts = {}
IsLineString(g) == g.kind = "LineString"
\* a variant of IsMultiLineString that takes nothing for a MultiLineString
IsMultiLineStringNever(g) == FALSE

IsMultiLineString(g) == g.kind = "MultiLineString"
\* shapely.multilinestrings(parts)
MultiLineStrings(P) == LineGeom("MultiLineString", P)
SegPaths(E) == {<<e[1], e[2]>> : e \in E}

\* shapely.line_merge: a LineString when one line results, a MultiLineString when
\* several do, an empty GeometryCollection when there is no line
LineMerge(g) ==
    LET P == MergeLines(g.parts)
    IN  LineGeom(IF P = {} THEN "GeometryCollection"
                 ELSE IF Cardinality(P) = 1 THEN "LineString"
                 ELSE "MultiLineString", P)

-----------------------------------------------------------------------------
(* Polygons.  A ring is the sequence of its side lengths; pieces[i] is the   *)
(* number of equal segments side i is divided in (1 until segmentized).      *)
(* The other fields are the kernel's answers for this polygon:               *)
(*   rrp      remove_repeated_points: "ok", "invalid_ring" (the ring         *)
(*            collapses below 4 points) or "error" (another GEOSException)   *)
(*   snap     set_precision(1e-8): "ok" or "collapse" (to an empty polygon)  *)
(*   vor      voronoi_polygons: "ok", "degenerate" ("point array must        *)
(*            contain ...") or "error"; vor_snap: the same after the snap    *)
(*   inside   the Voronoi edges contained in the polygon                     *)
(*   crossing the part inside the polygon of the edges that cross its border *)

Poly(sides, area, valid, rrp, snap, vor, vor_snap, inside, crossing) ==
    [kind |-> "Polygon", first |-> <<0, 0>>, sides |-> sides,
     pieces |-> [i \in 1..Len(sides) |-> 1], area |-> area, valid |-> valid,
     rrp |-> rrp, snap |-> snap, vor |-> vor, vor_snap |-> vor_snap,
     inside |-> inside, crossing |-> crossing]
EmptyPolygon == Poly(<<>>, 0, TRUE, "ok", "ok", "ok", "ok", {}, {})
NoneGeom == [EmptyPolygon EXCEPT !.kind = "None"]
GeomIsNone(g) == g.kind = "None"
\* the same polygon with its first point at (x, y)
At(g, x, y) == [g EXCEPT !.first = <<x, y>>]
\* geom.is_empty
GeomIsEmpty(g) == g.kind = "Polygon" /\ g.sides = <<>>
\* geom.length, geom.boundary.length
GeomLength(g) == SumSeq(g.sides)
\* shapely.get_num_coordinates: the closing coordinate of the ring counts
NumCoordinates(g) == IF g.sides = <<>> THEN 0 ELSE SumSeq(g.pieces) + 1

\* shapely.segmentize(geom, max_segment_length): a side longer than the maximum
\* is divided into ceil(length / maximum) equal segments
Segmentize(g, msl) ==
    [g EXCEPT !.pieces =
        [i \in 1..Len(g.sides) |->
            IF RLe(RInt(g.sides[i]), msl) THEN 1
            ELSE RCeilDiv(RInt(g.sides[i]), msl)]]

\* shapely.remove_repeated_points(geom, 1e-8): sides of length 0 disappear
RemoveRepeatedPoints(g) ==
    LET keep == {i \in 1..Len(g.sides) : g.sides[i] > 0}
        nth(k) == CHOOSE i \in keep : Cardinality({j \in keep : j < i}) = k - 1
    IN  [g EXCEPT !.sides = [k \in 1..Cardinality(keep) |-> g.sides[nth(k)]],
                  !.pieces = [k \in 1..Cardinality(keep) |-> g.pieces[nth(k)]]]

\* shapely.set_precision(geom, 1e-8): a valid geometry on the grid, or an empty
\* polygon when the ring collapses
SetPrecision(g) ==
    IF g.snap = "collapse" THEN EmptyPolygon
    ELSE [RemoveRepeatedPoints(g) EXCEPT !.valid = TRUE, !.rrp = "ok",
                                         !.vor = g.vor_snap]

\* shapely.voronoi_polygons(geom, only_edges=True), when it does not raise
VoronoiPolygons(g) ==
    IF GeomIsEmpty(g) THEN [inside |-> {}, crossing |-> {}]
    ELSE [inside |-> g.inside, crossing |-> g.crossing]
VoronoiOutcome(g) == IF GeomIsEmpty(g) THEN "ok" ELSE g.vor
NoEdges == [inside |-> {}, crossing |-> {}]

-----------------------------------------------------------------------------
(* _average_width (218-228) and _compactness (231-243) *)

\* a variant of AverageWidth that takes the other root
AverageWidthLargerRoot(g) ==
    LET q == R(GeomLength(g), 4)
    IN  RSub(q, RSub(RZero, RSqrt(RMax(RSub(RMul(q, q), RInt(g.area)), RZero))))

\* line 228: geom.length / 4 - sqrt(max((geom.length / 4) ** 2 - geom.area, 0))
AverageWidth(g) ==
    LET q == R(GeomLength(g), 4)
    IN  RSub(q, RSqrt(RMax(RSub(RMul(q, q), RInt(g.area)), RZero)))

\* line 243 with line 116: (4 * pi * area) / boundary.length ** 2 < 0.001,
\* pi taken as 22/7
CompactnessBelowLimit(g) ==
    4 * 22 * g.area * 1000 < 7 * GeomLength(g) * GeomLength(g)

\* line 126
max_factor_increase == 10

-----------------------------------------------------------------------------
(* _centerline: the densify step (lines 111-132) *)

\* a variant of MaxSegmentLength without the compactness test of line 116
MaxSegmentLengthNoCompactness(g, densify_distance) ==
    IF RLt(RZero, densify_distance)
    THEN [msl |-> densify_distance, aw |-> NoneNum]
    ELSE LET aw == AverageWidth(g)
             msl == RMul(RAbs(densify_distance), aw)
             factor_increase ==
                 RDiv(RDiv(RInt(GeomLength(g)), msl), RInt(NumCoordinates(g)))
         IN  [msl |-> IF RLt(RInt(max_factor_increase), factor_increase)
                      THEN RDiv(RMul(msl, factor_increase),
                                RInt(max_factor_increase))
                      ELSE msl,
              aw |-> aw]

\* a variant of MaxSegmentLength without the cap of lines 123-129
MaxSegmentLengthNoCap(g, densify_distance) ==
    IF RLt(RZero, densify_distance)
    THEN [msl |-> densify_distance, aw |-> NoneNum]
    ELSE IF CompactnessBelowLimit(g)
    THEN [msl |-> RZero, aw |-> NoneNum]
    ELSE [msl |-> RMul(RAbs(densify_distance), AverageWidth(g)),
          aw |-> AverageWidth(g)]

\* lines 113-129: [max_segment_length, average_width]; no densify_distance = 0 here
MaxSegmentLength(g, densify_distance) ==
    IF RLt(RZero, densify_distance)
    THEN [msl |-> densify_distance, aw |-> NoneNum]
    ELSE IF CompactnessBelowLimit(g)
    THEN [msl |-> RZero, aw |-> NoneNum]
    ELSE LET aw == AverageWidth(g)
             msl == RMul(RAbs(densify_distance), aw)
             factor_increase ==
                 RDiv(RDiv(RInt(GeomLength(g)), msl), RInt(NumCoordinates(g)))
         IN  [msl |-> IF RLt(RInt(max_factor_increase), factor_increase)
                      THEN RDiv(RMul(msl, factor_increase),
                                RInt(max_factor_increase))
                      ELSE msl,
              aw |-> aw]

-----------------------------------------------------------------------------
(* Kernel and collaborator operations on lines *)

\* shapely.normalize on lines: canonical direction of every part, same lines
Flip(e) == IF e = "start" THEN "end" ELSE "start"
Normalize(g) ==
    [kind |-> g.kind,
     parts |-> {Canon(p) : p \in g.parts},
     moved |-> {<<Canon(m[1]), IF Canon(m[1]) = m[1] THEN m[2] ELSE Flip(m[2])>> :
                   m \in g.moved}]

\* the square of the distance of node n to the segment from node a to node b
DistSq(n, a, b) ==
    LET abx == NodeX(b) - NodeX(a)
        aby == NodeY(b) - NodeY(a)
        apx == NodeX(n) - NodeX(a)
        apy == NodeY(n) - NodeY(a)
        bpx == NodeX(n) - NodeX(b)
        bpy == NodeY(n) - NodeY(b)
        len2 == abx * abx + aby * aby
        dot == apx * abx + apy * aby
        cross == apx * aby - apy * abx
    IN  IF len2 = 0 \/ dot <= 0 THEN RInt(apx * apx + apy * apy)
        ELSE IF dot >= len2 THEN RInt(bpx * bpx + bpy * bpy)
        ELSE R(cross * cross, len2)

\* Douglas-Peucker on one line: a vertex run whose vertices all lie within the
\* tolerance of its chord is replaced by the chord; a closed line is not collapsed
RECURSIVE SimplifyCoords(_, _)
SimplifyCoords(p, tolerance) ==
    IF Len(p) <= 2 THEN p
    ELSE LET inner == 2..(Len(p) - 1)
             d(i) == DistSq(p[i], First(p), Last(p))
             far == CHOOSE i \in inner :
                        \A j \in inner : RLt(d(j), d(i)) \/ (REq(d(j), d(i)) /\ i <= j)
         IN  IF RLe(d(far), RMul(tolerance, tolerance))
             THEN (IF First(p) = Last(p) THEN p ELSE <<First(p), Last(p)>>)
             ELSE SimplifyCoords(SubSeq(p, 1, far), tolerance)
                      \o Tail(SimplifyCoords(SubSeq(p, far, Len(p)), tolerance))

\* shapely.simplify(lines, tolerance)
ShapelySimplify(g, tolerance) ==
    [g EXCEPT !.parts = {Canon(SimplifyCoords(p, tolerance)) : p \in g.parts}]

-----------------------------------------------------------------------------
(* _remove_short_branches: one pass of the while loop (lines 308-385) *)

\* lines 325-342 / 345-360: does another part of the pass really intersect point n
\* (the STRtree only narrows the candidates; the part itself is skipped)
Adjacency(P, p, n) == \E q \in P : q # p /\ Intersects(q, n)

\* a variant of IsShortBranch that looks at the length only
IsShortBranchByLength(P, p, k) == RLt(RInt(Length(p)), k)

\* variants of IsShortBranch: one that also takes a part touched at both ends, one
\* that also takes a part of exactly min_branch_length
IsShortBranchAnyEnd(P, p, k) ==
    /\ RLt(RInt(Length(p)), k)
    /\ Adjacency(P, p, First(p)) \/ Adjacency(P, p, Last(p))
IsShortBranchUpTo(P, p, k) ==
    /\ RLe(RInt(Length(p)), k)
    /\ Adjacency(P, p, First(p)) # Adjacency(P, p, Last(p))

\* a variant of IsShortBranch that also takes a part no other part touches
IsShortBranchOrStandalone(P, p, k) ==
    /\ RLt(RInt(Length(p)), k)
    /\ ~(Adjacency(P, p, First(p)) /\ Adjacency(P, p, Last(p)))

\* lines 319-371: the part is below min_branch_length and only its start or only
\* its end touches another part
IsShortBranch(P, p, k) ==
    /\ RLt(RInt(Length(p)), k)
    /\ Adjacency(P, p, First(p)) # Adjacency(P, p, Last(p))

\* lines 313-316: the order of sorted(enumerate(parts), key=length): by length,
\* parts of equal length in the order of the (normalized) geometry
SortedBefore(p, q) ==
    Length(p) < Length(q) \/ (Length(p) = Length(q) /\ PathLess(p, q))

\* a variant of LinePartsToRemove without the break of line 373
LinePartsToRemoveNoBreak(P, k, one_by_one) == {p \in P : IsShortBranch(P, p, k)}

\* lines 311-373: line_parts_to_remove at the end of the for loop
LinePartsToRemove(P, k, one_by_one) ==
    LET marked == {p \in P : IsShortBranch(P, p, k)}
    IN  IF one_by_one /\ marked # {}
        THEN {CHOOSE p \in marked : \A q \in marked \ {p} : SortedBefore(p, q)}
        ELSE marked

\* a variant of NoneOrEmpty that takes every result as good
NoneOrEmptyNever(g) == FALSE

\* a variant of NoneOrEmpty without the is_empty test
NoneOrEmptyOnlyNone(g) == IsNone(g)

\* lines 272 and 278: line_cleaned is None or line_cleaned.is_empty
NoneOrEmpty(g) == IsNone(g) \/ IsEmpty(g)

\* line 263 and line 303: nothing to clean
NothingToClean(g, k) == IsNone(g) \/ IsLineString(g) \/ RLe(k, RZero)

-----------------------------------------------------------------------------
(* The pruner as a state machine: _remove_short_branches_notempty (246-281) *)
(* calling _remove_short_branches (284-387)                                 *)

\* line 263-264: return the input as it is
NotEmptyEarlyReturn ==
    /\ ppc = "entry"
    /\ NothingToClean(line, min_branch_length)
    /\ lines' = line
    /\ ppc' = "returned"
    /\ pc' = "simplify"
    /\ UNCHANGED <<line, min_branch_length, remove_one_by_one, line_cleaned,
                   pass_parts, pass_removed>>
    /\ UNCHANGED <<geom, average_width, max_segment_length, geom_for_voronoi,
                   voronoi_edges, min_branch_length_cur, tol, stages, lines_extracted>>
    /\ UNCHANGED cvars

\* lines 267-269 and 303-307: the first call of _remove_short_branches, in bulk mode
StartBulk ==
    /\ ppc = "entry"
    /\ ~NothingToClean(line, min_branch_length)
    /\ remove_one_by_one' = FALSE
    /\ line_cleaned' = Normalize(line)
    /\ ppc' = "loop"
    /\ pass_parts' = {}
    /\ pass_removed' = {}
    /\ UNCHANGED <<line, min_branch_length>>
    /\ UNCHANGED <<lvars, cvars>>

\* lines 308-379 and 385: a pass that removes parts, then merges what is left
PassRemove ==
    /\ ppc = "loop"
    /\ IsMultiLineString(line_cleaned)
    /\ \E gone \in {LinePartsToRemove(line_cleaned.parts, min_branch_length,
                                       remove_one_by_one)} :
          /\ gone # {}
          /\ \E kept \in {MultiLineStrings(line_cleaned.parts \ gone)} :
                line_cleaned' = LineMerge(kept)
          /\ pass_parts' = line_cleaned.parts
          /\ pass_removed' = gone
    /\ UNCHANGED <<ppc, line, min_branch_length, remove_one_by_one>>
    /\ UNCHANGED <<lvars, cvars>>

\* lines 380-382: a pass that removes nothing ends the loop
PassBreak ==
    /\ ppc = "loop"
    /\ IsMultiLineString(line_cleaned)
    /\ LinePartsToRemove(line_cleaned.parts, min_branch_length,
                         remove_one_by_one) = {}
    /\ ppc' = "after"
    /\ pass_parts' = line_cleaned.parts
    /\ pass_removed' = {}
    /\ UNCHANGED <<line, min_branch_length, remove_one_by_one, line_cleaned>>
    /\ UNCHANGED <<lvars, cvars>>

\* line 308: the loop ends when line_cleaned is no MultiLineString any more
LoopExit ==
    /\ ppc = "loop"
    /\ ~IsMultiLineString(line_cleaned)
    /\ ppc' = "after"
    /\ UNCHANGED <<line, min_branch_length, remove_one_by_one, line_cleaned,
                   pass_parts, pass_removed>>
    /\ UNCHANGED <<lvars, cvars>>

\* lines 272-275: an empty bulk result starts the one by one mode from the input
StartOneByOne ==
    /\ ppc = "after"
    /\ ~remove_one_by_one
    /\ NoneOrEmpty(line_cleaned)
    /\ remove_one_by_one' = TRUE
    /\ line_cleaned' = Normalize(line)
    /\ ppc' = "loop"
    /\ pass_parts' = {}
    /\ pass_removed' = {}
    /\ UNCHANGED <<line, min_branch_length>>
    /\ UNCHANGED <<lvars, cvars>>

\* lines 278-281: the value _remove_short_branches_notempty returns
NotEmptyResult(orig, cleaned) ==
    IF NoneOrEmpty(cleaned) THEN orig ELSE cleaned

\* lines 272, 278-281: return the cleaned line, or the input if it is empty
NotEmptyReturn ==
    /\ ppc = "after"
    /\ remove_one_by_one \/ ~NoneOrEmpty(line_cleaned)
    /\ lines' = NotEmptyResult(line, line_cleaned)
    /\ ppc' = "returned"
    /\ pc' = "simplify"
    /\ UNCHANGED <<line, min_branch_length, remove_one_by_one, line_cleaned,
                   pass_parts, pass_removed>>
    /\ UNCHANGED <<geom, average_width, max_segment_length, geom_for_voronoi,
                   voronoi_edges, min_branch_length_cur, tol, stages, lines_extracted>>
    /\ UNCHANGED cvars

PruneNext ==
    \/ NotEmptyEarlyReturn
    \/ StartBulk
    \/ PassRemove
    \/ PassBreak
    \/ LoopExit
    \/ StartOneByOne
    \/ NotEmptyReturn

-----------------------------------------------------------------------------
(* extend_line_to_geometry (src/pygeoops/_extend_line.py, 38-128).  The border *)
(* of the polygon lies outside the skeleton grid: an end that is extended is  *)
(* recorded in the field moved of the geometry.                               *)

\* lines 62-82: a line that is no (Multi)LineString raises a ValueError
ExtendRaises(g) == ~(IsLineString(g) \/ IsMultiLineString(g))

\* lines 114 and 122: the end touches one of the other branches
Blocked(g, p, n) == \E q \in g.parts : q # p /\ Intersects(q, n)

\* lines 62-84: every part is extended at the ends no other part blocks
ExtendLineToGeometry(g) ==
    [g EXCEPT !.moved =
        {<<p, "start">> : p \in {q \in g.parts : ~Blocked(g, q, First(q))}}
        \cup {<<p, "end">> : p \in {q \in g.parts : ~Blocked(g, q, Last(q))}}]

-----------------------------------------------------------------------------
(* _centerline (lines 99-215), one action per step *)

NoError == [type |-> "none", ident |-> <<>>]
Raised(t) == [type |-> t, ident |-> <<>>]

\* what stays as it is in a step of _centerline that touches no pruner variable
\* and nothing of centerline()
FrameOuter == UNCHANGED <<geometry, params, cpc, result, returned, completed, pvars>>

\* a variant of NothingToDo without the is_empty test
NothingToDoOnlyNone(g) == GeomIsNone(g)

\* line 106: geom is None or geom.is_empty
NothingToDo(g) == GeomIsNone(g) \/ GeomIsEmpty(g)

\* lines 106-107
ReturnNone ==
    /\ pc = "entry"
    /\ NothingToDo(geom)
    /\ lines' = NoneLine
    /\ pc' = "done"
    /\ UNCHANGED <<geom, average_width, max_segment_length, geom_for_voronoi,
                   voronoi_edges, min_branch_length_cur, tol, stages, lines_extracted>>
    /\ UNCHANGED error
    /\ FrameOuter

\* lines 111-132: [aw, msl, gfv, ran]
DensifyStep(g, densify_distance) ==
    IF REq(densify_distance, RZero)
    THEN [aw |-> NoneNum, msl |-> NoneNum, gfv |-> g, ran |-> <<>>]
    ELSE LET m == MaxSegmentLength(g, densify_distance)
             w == IF IsNoneNum(m.aw) THEN <<>> ELSE <<"average_width">>
         IN  IF RLt(RZero, m.msl)
             THEN [aw |-> m.aw, msl |-> m.msl, gfv |-> Segmentize(g, m.msl),
                   ran |-> w \o <<"segmentize">>]
             ELSE [aw |-> m.aw, msl |-> m.msl, gfv |-> g, ran |-> w]

Densify ==
    /\ pc = "entry"
    /\ ~NothingToDo(geom)
    /\ LET d == DensifyStep(geom, params.densify_distance)
       IN  /\ average_width' = d.aw
           /\ max_segment_length' = d.msl
           /\ geom_for_voronoi' = d.gfv
           /\ stages' = stages \o d.ran
    /\ pc' = "dedup"
    /\ UNCHANGED <<geom, voronoi_edges, lines, min_branch_length_cur, tol,
                   lines_extracted>>
    /\ UNCHANGED error
    /\ FrameOuter

\* a variant of DedupStep that takes the deduplicated geometry even if invalid
DedupStepAlwaysReplace(gfv) ==
    IF gfv.rrp = "error"
    THEN [raises |-> TRUE, gfv |-> gfv, ran |-> <<"remove_repeated_points">>]
    ELSE [raises |-> FALSE,
          gfv |-> IF gfv.rrp = "invalid_ring" THEN SetPrecision(gfv)
                  ELSE RemoveRepeatedPoints(gfv),
          ran |-> IF gfv.rrp = "invalid_ring"
                  THEN <<"remove_repeated_points", "set_precision">>
                  ELSE <<"remove_repeated_points">>]

\* lines 135-151: [raises, gfv, ran]
DedupStep(gfv) ==
    IF gfv.rrp = "error"
    THEN [raises |-> TRUE, gfv |-> gfv, ran |-> <<"remove_repeated_points">>]
    ELSE LET dedup == IF gfv.rrp = "invalid_ring" THEN SetPrecision(gfv)
                      ELSE RemoveRepeatedPoints(gfv)
         IN  [raises |-> FALSE,
              gfv |-> IF dedup.valid THEN dedup ELSE gfv,
              ran |-> IF gfv.rrp = "invalid_ring"
                      THEN <<"remove_repeated_points", "set_precision">>
                      ELSE <<"remove_repeated_points">>]

Dedup ==
    /\ pc = "dedup"
    /\ LET d == DedupStep(geom_for_voronoi)
       IN  /\ geom_for_voronoi' = d.gfv
           /\ stages' = stages \o d.ran
           /\ pc' = IF d.raises THEN "except" ELSE "voronoi"
           /\ error' = IF d.raises THEN Raised("GEOSException") ELSE error
    /\ UNCHANGED <<geom, average_width, max_segment_length, voronoi_edges, lines,
                   min_branch_length_cur, tol, lines_extracted>>
    /\ FrameOuter

\* a variant of VoronoiStep that retries after any failure
VoronoiStepRetryAlways(gfv) ==
    IF VoronoiOutcome(gfv) = "ok"
    THEN [raises |-> FALSE, gfv |-> gfv, edges |-> VoronoiPolygons(gfv),
          ran |-> <<"voronoi">>]
    ELSE LET snapped == SetPrecision(gfv)
         IN  [raises |-> VoronoiOutcome(snapped) # "ok",
              gfv |-> snapped,
              edges |-> IF VoronoiOutcome(snapped) = "ok"
                        THEN VoronoiPolygons(snapped) ELSE NoEdges,
              ran |-> <<"voronoi", "set_precision", "voronoi">>]

\* lines 154-168: [raises, gfv, edges, ran]
VoronoiStep(gfv) ==
    IF VoronoiOutcome(gfv) = "ok"
    THEN [raises |-> FALSE, gfv |-> gfv, edges |-> VoronoiPolygons(gfv),
          ran |-> <<"voronoi">>]
    ELSE IF VoronoiOutcome(gfv) = "degenerate"
    THEN LET snapped == SetPrecision(gfv)
         IN  [raises |-> VoronoiOutcome(snapped) # "ok",
              gfv |-> snapped,
              edges |-> IF VoronoiOutcome(snapped) = "ok"
                        THEN VoronoiPolygons(snapped) ELSE NoEdges,
              ran |-> <<"voronoi", "set_precision", "voronoi">>]
    ELSE [raises |-> TRUE, gfv |-> gfv, edges |-> NoEdges, ran |-> <<"voronoi">>]

Voronoi ==
    /\ pc = "voronoi"
    /\ LET v == VoronoiStep(geom_for_voronoi)
       IN  /\ geom_for_voronoi' = v.gfv
           /\ voronoi_edges' = v.edges
           /\ stages' = stages \o v.ran
           /\ pc' = IF v.raises THEN "except" ELSE "filter"
           /\ error' = IF v.raises THEN Raised("GEOSException") ELSE error
    /\ UNCHANGED <<geom, average_width, max_segment_length, lines,
                   min_branch_length_cur, tol, lines_extracted>>
    /\ FrameOuter

\* lines 173-183: the lines of the raw skeleton
ExtractLines(edges) ==
    IF Cardinality(edges.inside) = 1
    THEN LineGeom("LineString", SegPaths(edges.inside))
    ELSE IF Cardinality(edges.inside) > 1
    THEN LineMerge(MultiLineStrings(SegPaths(edges.inside)))
    ELSE LineMerge(MultiLineStrings(SegPaths(edges.inside \cup edges.crossing)))

Filter ==
    /\ pc = "filter"
    /\ lines' = ExtractLines(voronoi_edges)
    /\ lines_extracted' = lines'
    /\ stages' = Append(stages, "filter")
    /\ pc' = "resolve"
    /\ UNCHANGED <<geom, average_width, max_segment_length, geom_for_voronoi,
                   voronoi_edges, min_branch_length_cur, tol>>
    /\ UNCHANGED error
    /\ FrameOuter

\* lines 189-190 and 202-203: average_width, computed only if it is still None
LazyAverageWidth(aw, g) == IF IsNoneNum(aw) THEN AverageWidth(g) ELSE aw

\* a variant of ResolveMinBranchLength without abs()
ResolveMinBranchLengthNoAbs(mbl, aw, g) ==
    IF RLt(mbl, RZero)
    THEN [cur |-> RMul(mbl, LazyAverageWidth(aw, g)),
          aw |-> LazyAverageWidth(aw, g),
          ran |-> IF IsNoneNum(aw) THEN <<"average_width">> ELSE <<>>]
    ELSE [cur |-> mbl, aw |-> aw, ran |-> <<>>]

\* a variant of ResolveMinBranchLength that computes average_width anew
ResolveMinBranchLengthRecompute(mbl, aw, g) ==
    IF RLt(mbl, RZero)
    THEN [cur |-> RMul(RAbs(mbl), AverageWidth(g)),
          aw |-> AverageWidth(g),
          ran |-> <<"average_width">>]
    ELSE [cur |-> mbl, aw |-> aw, ran |-> <<>>]

\* lines 186-191: [cur, aw, ran]
ResolveMinBranchLength(mbl, aw, g) ==
    IF RLt(mbl, RZero)
    THEN [cur |-> RMul(RAbs(mbl), LazyAverageWidth(aw, g)),
          aw |-> LazyAverageWidth(aw, g),
          ran |-> IF IsNoneNum(aw) THEN <<"average_width">> ELSE <<>>]
    ELSE [cur |-> mbl, aw |-> aw, ran |-> <<>>]

\* a variant of PruneWanted that always calls the pruner
PruneWantedAlways(cur) == TRUE
\* a variant of PruneWanted that takes 0 too
PruneWantedFromZero(cur) == RLe(RZero, cur)

\* line 192
PruneWanted(cur) == RLt(RZero, cur)

\* lines 186-195: the pruner is called
PruneCall ==
    /\ pc = "resolve"
    /\ ppc = "idle"
    /\ LET r == ResolveMinBranchLength(params.min_branch_length, average_width, geom)
       IN  /\ PruneWanted(r.cur)
           /\ min_branch_length_cur' = r.cur
           /\ average_width' = r.aw
           /\ stages' = stages \o r.ran \o <<"prune">>
           /\ line' = lines
           /\ min_branch_length' = r.cur
    /\ ppc' = "entry"
    /\ pc' = "prune"
    /\ UNCHANGED <<remove_one_by_one, line_cleaned, pass_parts, pass_removed>>
    /\ UNCHANGED <<geom, max_segment_length, geom_for_voronoi, voronoi_edges, lines,
                   tol, lines_extracted>>
    /\ UNCHANGED cvars

\* lines 186-192: the pruner is not called
PruneSkip ==
    /\ pc = "resolve"
    /\ LET r == ResolveMinBranchLength(params.min_branch_length, average_width, geom)
       IN  /\ ~PruneWanted(r.cur)
           /\ min_branch_length_cur' = r.cur
           /\ average_width' = r.aw
           /\ stages' = stages \o r.ran
    /\ pc' = "simplify"
    /\ UNCHANGED <<geom, max_segment_length, geom_for_voronoi, voronoi_edges, lines,
                   tol, lines_extracted>>
    /\ UNCHANGED error
    /\ FrameOuter

\* lines 198-205: [lines, tol, aw, ran]
SimplifyStep(g, simplifytolerance, aw, poly) ==
    IF IsNoneNum(simplifytolerance)
    THEN [lines |-> g, tol |-> NoneNum, aw |-> aw, ran |-> <<>>]
    ELSE IF RLt(simplifytolerance, RZero)
    THEN LET t == RMul(RAbs(simplifytolerance), LazyAverageWidth(aw, poly))
         IN  [lines |-> ShapelySimplify(g, t), tol |-> t,
              aw |-> LazyAverageWidth(aw, poly),
              ran |-> IF IsNoneNum(aw) THEN <<"average_width", "simplify">>
                      ELSE <<"simplify">>]
    ELSE [lines |-> ShapelySimplify(g, simplifytolerance),
          tol |-> simplifytolerance, aw |-> aw, ran |-> <<"simplify">>]

Simplify ==
    /\ pc = "simplify"
    /\ LET r == SimplifyStep(lines, params.simplifytolerance, average_width, geom)
       IN  /\ lines' = r.lines
           /\ tol' = r.tol
           /\ average_width' = r.aw
           /\ stages' = stages \o r.ran
    /\ pc' = "extend"
    /\ UNCHANGED <<geom, max_segment_length, geom_for_voronoi, voronoi_edges,
                   min_branch_length_cur, lines_extracted>>
    /\ UNCHANGED error
    /\ FrameOuter

\* lines 207-208
Extend ==
    /\ pc = "extend"
    /\ IF ~params.extend
       THEN /\ pc' = "normalize"
            /\ UNCHANGED <<lines, stages, error>>
       ELSE IF ExtendRaises(lines)
       THEN /\ pc' = "except"
            /\ error' = Raised("ValueError")
            /\ stages' = Append(stages, "extend")
            /\ UNCHANGED lines
       ELSE /\ pc' = "normalize"
            /\ lines' = ExtendLineToGeometry(lines)
            /\ stages' = Append(stages, "extend")
            /\ UNCHANGED error
    /\ UNCHANGED <<geom, average_width, max_segment_length, geom_for_voronoi,
                   voronoi_edges, min_branch_length_cur, tol, lines_extracted>>
    /\ FrameOuter

\* lines 211-212
NormalizeReturn ==
    /\ pc = "normalize"
    /\ lines' = Normalize(lines)
    /\ stages' = Append(stages, "normalize")
    /\ pc' = "done"
    /\ UNCHANGED <<geom, average_width, max_segment_length, geom_for_voronoi,
                   voronoi_edges, min_branch_length_cur, tol, lines_extracted>>
    /\ UNCHANGED error
    /\ FrameOuter

\* src/pygeoops/_general.py, 296-307: format_short of None and of a polygon, the
\* type and the first point of the exterior
FormatShort(g) ==
    IF GeomIsNone(g) THEN <<"None">> ELSE <<"POLYGON", g.first[1], g.first[2]>>

\* a variant of Wrapped that raises the exception as it is
WrappedBare(ex, g) == ex
\* a variant of Wrapped that raises an exception of a fixed type
WrappedAsRuntimeError(ex, g) == [type |-> "RuntimeError", ident |-> FormatShort(g)]

\* lines 214-215: the exception is raised again, with format_short(geom) in front
Wrapped(ex, g) == [ex EXCEPT !.ident = FormatShort(g)]

WrapException ==
    /\ pc = "except"
    /\ error' = Wrapped(error, geom)
    /\ pc' = "raised"
    /\ UNCHANGED <<geom, average_width, max_segment_length, geom_for_voronoi,
                   voronoi_edges, lines, min_branch_length_cur, tol, stages,
                   lines_extracted>>
    /\ FrameOuter

CenterlineStep ==
    \/ ReturnNone
    \/ Densify
    \/ Dedup
    \/ Voronoi
    \/ Filter
    \/ PruneCall
    \/ PruneSkip
    \/ Simplify
    \/ Extend
    \/ NormalizeReturn
    \/ WrapException

-----------------------------------------------------------------------------
(* centerline (lines 17-96) *)

NoValue == [ctype |-> "nothing", values |-> <<>>, index |-> <<>>]
\* line 73: hasattr(geometry, "__len__")
IsArrayLike(x) == x.ctype \in {"list", "geoseries"}

\* a new call of _centerline: its locals are unbound, the pruner is not running
CallFrame(g) ==
    /\ pc' = "entry"
    /\ geom' = g
    /\ average_width' = NoneNum
    /\ max_segment_length' = NoneNum
    /\ geom_for_voronoi' = g
    /\ voronoi_edges' = NoEdges
    /\ lines' = NoneLine
    /\ min_branch_length_cur' = NoneNum
    /\ tol' = NoneNum
    /\ stages' = <<>>
    /\ lines_extracted' = NoneLine
    /\ ppc' = "idle"
    /\ line' = NoneLine
    /\ min_branch_length' = NoneNum
    /\ remove_one_by_one' = FALSE
    /\ line_cleaned' = NoneLine
    /\ pass_parts' = {}
    /\ pass_removed' = {}

\* lines 68-69
CenterlineNone ==
    /\ cpc = "call"
    /\ geometry.ctype = "None"
    /\ returned' = [ctype |-> "None", values |-> <<>>, index |-> <<>>]
    /\ cpc' = "returned"
    /\ UNCHANGED <<geometry, params, result, error, completed>>
    /\ UNCHANGED <<lvars, pvars>>

\* lines 70 and 90-96: one geometry (a 0 dimension ndarray gives its item)
StartSingle ==
    /\ cpc = "call"
    /\ geometry.ctype \in {"scalar", "ndarray0"}
    /\ CallFrame(geometry.geoms[1])
    /\ cpc' = "single"
    /\ UNCHANGED <<geometry, params, result, returned, error, completed>>

ReturnSingle ==
    /\ cpc = "single"
    /\ pc = "done"
    /\ returned' = [ctype |-> IF IsNone(lines) THEN "None" ELSE "geometry",
                    values |-> <<lines>>, index |-> <<>>]
    /\ completed' = Append(completed, [geom |-> geom, lines |-> lines])
    /\ cpc' = "returned"
    /\ UNCHANGED <<geometry, params, result, error>>
    /\ UNCHANGED <<lvars, pvars>>

\* lines 74-84: the list comprehension calls _centerline for the next geometry
StartElement ==
    /\ cpc \in {"call", "loop"}
    /\ IsArrayLike(geometry)
    /\ pc = "idle"
    /\ Len(result) < Len(geometry.geoms)
    /\ CallFrame(geometry.geoms[Len(result) + 1])
    /\ cpc' = "loop"
    /\ UNCHANGED <<geometry, params, result, returned, error, completed>>

\* lines 75-84: the value of the call is the next element of the list
Collect ==
    /\ cpc = "loop"
    /\ pc = "done"
    /\ result' = Append(result, lines)
    /\ completed' = Append(completed, [geom |-> geom, lines |-> lines])
    /\ pc' = "idle"
    /\ UNCHANGED <<geometry, params, cpc, returned, error>>
    /\ UNCHANGED <<geom, average_width, max_segment_length, geom_for_voronoi,
                   voronoi_edges, lines, min_branch_length_cur, tol, stages,
                   lines_extracted>>
    /\ UNCHANGED pvars

\* a variant of ArrayResult whose GeoSeries gets the default index
ArrayResultNoIndex(x, values) ==
    [ctype |-> IF x.ctype = "geoseries" THEN "geoseries" ELSE "ndarray",
     values |-> values,
     index |-> IF x.ctype = "geoseries" THEN [i \in 1..Len(values) |-> i - 1]
               ELSE <<>>]

\* lines 74 and 85-88: np.array of the list, a GeoSeries keeps index (and crs)
ArrayResult(x, values) ==
    [ctype |-> IF x.ctype = "geoseries" THEN "geoseries" ELSE "ndarray",
     values |-> values,
     index |-> IF x.ctype = "geoseries" THEN x.index ELSE <<>>]

ReturnArray ==
    /\ cpc \in {"call", "loop"}
    /\ IsArrayLike(geometry)
    /\ pc = "idle"
    /\ Len(result) = Len(geometry.geoms)
    /\ returned' = ArrayResult(geometry, result)
    /\ cpc' = "returned"
    /\ UNCHANGED <<geometry, params, result, error, completed>>
    /\ UNCHANGED <<lvars, pvars>>

\* the exception of _centerline leaves centerline: the list that was being built
\* is gone and nothing is returned
PropagateError ==
    /\ cpc \in {"single", "loop"}
    /\ pc = "raised"
    /\ result' = <<>>
    /\ cpc' = "raised"
    /\ UNCHANGED <<geometry, params, returned, error, completed>>
    /\ UNCHANGED <<lvars, pvars>>

CenterlineNext ==
    \/ CenterlineNone
    \/ StartSingle
    \/ ReturnSingle
    \/ StartElement
    \/ Collect
    \/ ReturnArray
    \/ PropagateError

-----------------------------------------------------------------------------
(* The value of one call, as a function of its arguments: the same steps as    *)
(* the actions above, composed                                                *)

\* lines 308-387: the while loop of _remove_short_branches
RECURSIVE RemoveShortBranchesLoop(_, _, _)
RemoveShortBranchesLoop(g, k, one_by_one) ==
    IF ~IsMultiLineString(g) THEN g
    ELSE LET gone == LinePartsToRemove(g.parts, k, one_by_one)
         IN  IF gone = {} THEN g
             ELSE RemoveShortBranchesLoop(
                      LineMerge(MultiLineStrings(g.parts \ gone)), k, one_by_one)

\* lines 284-387
RemoveShortBranches(g, k, one_by_one) ==
    IF NothingToClean(g, k) THEN g
    ELSE RemoveShortBranchesLoop(Normalize(g), k, one_by_one)

\* lines 246-281
RemoveShortBranchesNotEmpty(g, k) ==
    IF NothingToClean(g, k) THEN g
    ELSE LET bulk == RemoveShortBranches(g, k, FALSE)
         IN  NotEmptyResult(g, IF NoneOrEmpty(bulk)
                               THEN RemoveShortBranches(g, k, TRUE) ELSE bulk)

\* lines 99-215: [raised, lines] of _centerline(g, ...)
CenterlineAlone(g, prm) ==
    IF NothingToDo(g) THEN [raised |-> FALSE, lines |-> NoneLine]
    ELSE LET d == DensifyStep(g, prm.densify_distance)
             u == DedupStep(d.gfv)
             v == VoronoiStep(u.gfv)
             x == ExtractLines(v.edges)
             r == ResolveMinBranchLength(prm.min_branch_length, d.aw, g)
             c == IF PruneWanted(r.cur)
                  THEN RemoveShortBranchesNotEmpty(x, r.cur) ELSE x
             m == SimplifyStep(c, prm.simplifytolerance, r.aw, g)
         IN  IF u.raises \/ v.raises \/ (prm.extend /\ ExtendRaises(m.lines))
             THEN [raised |-> TRUE, lines |-> NoneLine]
             ELSE [raised |-> FALSE,
                   lines |-> Normalize(IF prm.extend
                                       THEN ExtendLineToGeometry(m.lines)
                                       ELSE m.lines)]

-----------------------------------------------------------------------------
(* Inputs *)

NodeAt(x, y) == y * GridW + x + 1
Seg(a, b) == IF a < b THEN <<a, b>> ELSE <<b, a>>
\* raw skeletons: an H (two junctions joined by a bridge), a T (three branches at
\* one junction), two separate edges, one edge, a straight run of two edges
HShape ==
    {Seg(NodeAt(0, 0), NodeAt(1, 0)), Seg(NodeAt(1, 0), NodeAt(2, 0)),
     Seg(NodeAt(1, 0), NodeAt(1, 1)),
     Seg(NodeAt(0, 1), NodeAt(1, 1)), Seg(NodeAt(1, 1), NodeAt(2, 1))}
TShape ==
    {Seg(NodeAt(0, 0), NodeAt(1, 0)), Seg(NodeAt(1, 0), NodeAt(2, 0)),
     Seg(NodeAt(1, 0), NodeAt(1, 1))}
TwoEdges == {Seg(NodeAt(0, 0), NodeAt(1, 0)), Seg(NodeAt(1, 1), NodeAt(2, 1))}
OneEdge == {Seg(NodeAt(0, 0), NodeAt(1, 0))}
Bar == {Seg(NodeAt(0, 0), NodeAt(1, 0)), Seg(NodeAt(1, 0), NodeAt(2, 0))}

\* a 2 x 6 rectangle (average width 2)
PRect == Poly(<<2, 6, 2, 6>>, 12, TRUE, "ok", "ok", "ok", "ok", HShape, {})
\* a 4 x 4 square (average width 4)
PSquare ==
    At(Poly(<<4, 4, 4, 4>>, 16, TRUE, "ok", "ok", "ok", "ok", TShape, {}), 10, 0)
\* a 1 x 7 rectangle no Voronoi edge is contained in
PThin == At(Poly(<<1, 7, 1, 7>>, 7, TRUE, "ok", "ok", "ok", "ok", {}, Bar), 0, 10)
\* a 1 x 3199 rectangle: compactness below 0.001
PLong == Poly(<<1, 3199, 1, 3199>>, 3199, TRUE, "ok", "ok", "ok", "ok", {}, Bar)
\* a polygon smaller than the 1e-8 tolerance: its ring collapses
PTiny == Poly(<<1, 1, 1, 1>>, 1, TRUE, "invalid_ring", "collapse", "ok", "ok",
              OneEdge, {})
\* a polygon whose ring is repaired by the snap
PSnap == Poly(<<4, 4, 4, 4>>, 16, TRUE, "invalid_ring", "ok", "ok", "ok",
              TShape, {})
\* an invalid polygon with a repeated point
PInvalid == Poly(<<0, 2, 6, 2, 6>>, 12, FALSE, "ok", "ok", "ok", "ok",
                 TwoEdges, {})
\* polygons the Voronoi construction fails on, and one the dedup fails on
PDegenerate == Poly(<<2, 2, 2, 2>>, 4, TRUE, "ok", "ok", "degenerate", "ok",
                    OneEdge, {})
PDegenerateTwice == Poly(<<2, 2, 2, 2>>, 4, TRUE, "ok", "ok", "degenerate",
                         "degenerate", OneEdge, {})
PVoronoiError == Poly(<<2, 2, 2, 2>>, 4, TRUE, "ok", "ok", "error", "ok",
                      OneEdge, {})
PDedupError == Poly(<<2, 6, 2, 6>>, 12, TRUE, "error", "ok", "ok", "ok",
                    HShape, {})

Polygons ==
    {PRect, PSquare, PThin, PLong, PTiny, PSnap, PInvalid, PDegenerate,
     PDegenerateTwice, PVoronoiError, PDedupError}
BatchGeoms == {NoneGeom, EmptyPolygon, PRect, PSquare, PDedupError}

Batches == UNION {[1..n -> BatchGeoms] : n \in 0..MaxBatch}
Inputs ==
    {[ctype |-> "None", geoms |-> <<>>, index |-> <<>>]}
    \cup {[ctype |-> "scalar", geoms |-> <<g>>, index |-> <<>>] :
             g \in Polygons \cup {EmptyPolygon}}
    \cup {[ctype |-> "ndarray0", geoms |-> <<g>>, index |-> <<>>] :
             g \in {NoneGeom, PRect}}
    \cup {[ctype |-> "list", geoms |-> b, index |-> <<>>] : b \in Batches}
    \cup {[ctype |-> "geoseries", geoms |-> b,
           index |-> [i \in 1..Len(b) |-> i + 4]] : b \in Batches}

DensifyDistances == {RInt(-1), RZero, RInt(3)}
MinBranchLengths == {RInt(-1), RZero, RInt(2)}
SimplifyTolerances == {NoneNum, RZero, R(-1, 4), RInt(1)}
Params ==
    [densify_distance : DensifyDistances, min_branch_length : MinBranchLengths,
     simplifytolerance : SimplifyTolerances, extend : BOOLEAN]

-----------------------------------------------------------------------------
(* Specifications *)

IdleLocals ==
    /\ pc = "idle"
    /\ geom = NoneGeom
    /\ average_width = NoneNum
    /\ max_segment_length = NoneNum
    /\ geom_for_voronoi = NoneGeom
    /\ voronoi_edges = NoEdges
    /\ lines = NoneLine
    /\ min_branch_length_cur = NoneNum
    /\ tol = NoneNum
    /\ stages = <<>>
    /\ lines_extracted = NoneLine
IdlePruner ==
    /\ ppc = "idle"
    /\ line = NoneLine
    /\ min_branch_length = NoneNum
    /\ remove_one_by_one = FALSE
    /\ line_cleaned = NoneLine
    /\ pass_parts = {}
    /\ pass_removed = {}

\* a call of centerline()
Init ==
    /\ geometry \in Inputs
    /\ params \in Params
    /\ cpc = "call"
    /\ result = <<>>
    /\ returned = NoValue
    /\ error = NoError
    /\ completed = <<>>
    /\ IdleLocals
    /\ IdlePruner

Next == CenterlineNext \/ CenterlineStep \/ PruneNext
Spec == Init /\ [][Next]_vars

\* the pruner alone, as _centerline calls it for a polygon with any raw skeleton
\* of the grid and any min_branch_length in 1..MaxK
PruneInputs ==
    {Poly(<<2, 6, 2, 6>>, 12, TRUE, "ok", "ok", "ok", "ok", E, {}) :
        E \in SUBSET Segments}
InitPrune ==
    /\ geom \in PruneInputs
    /\ geometry = [ctype |-> "scalar", geoms |-> <<geom>>, index |-> <<>>]
    /\ min_branch_length \in {RInt(k) : k \in 1..MaxK}
    /\ params = [densify_distance |-> RZero,
                 min_branch_length |-> min_branch_length,
                 simplifytolerance |-> NoneNum, extend |-> FALSE]
    /\ cpc = "single"
    /\ result = <<>>
    /\ returned = NoValue
    /\ error = NoError
    /\ completed = <<>>
    /\ pc = "prune"
    /\ average_width = NoneNum
    /\ max_segment_length = NoneNum
    /\ geom_for_voronoi = geom
    /\ voronoi_edges = VoronoiPolygons(geom)
    /\ line = ExtractLines(voronoi_edges)
    /\ lines = line
    /\ lines_extracted = line
    /\ min_branch_length_cur = min_branch_length
    /\ tol = NoneNum
    /\ stages = <<"remove_repeated_points", "voronoi", "filter", "prune">>
    /\ ppc = "entry"
    /\ remove_one_by_one = FALSE
    /\ line_cleaned = NoneLine
    /\ pass_parts = {}
    /\ pass_removed = {}

SpecPrune == InitPrune /\ [][PruneNext]_vars

\* The pruner from before its call, on the skeletons of at most MaxEdges edges:
\* line 193 of _centerline calls it with the lines of the filter stage and the
\* min_branch_length resolved. It is sequential code: a step that can be taken
\* is taken.
MaxEdges == 4
InitPruneIdle ==
    /\ geom = NoneGeom
    /\ geometry = [ctype |-> "scalar", geoms |-> <<geom>>, index |-> <<>>]
    /\ params = [densify_distance |-> RZero, min_branch_length |-> RZero,
                 simplifytolerance |-> NoneNum, extend |-> FALSE]
    /\ cpc = "single"
    /\ result = <<>>
    /\ returned = NoValue
    /\ error = NoError
    /\ completed = <<>>
    /\ pc = "idle"
    /\ average_width = NoneNum
    /\ max_segment_length = NoneNum
    /\ geom_for_voronoi = NoneGeom
    /\ voronoi_edges = NoEdges
    /\ lines = NoneLine
    /\ lines_extracted = NoneLine
    /\ min_branch_length_cur = NoneNum
    /\ tol = NoneNum
    /\ stages = <<>>
    /\ IdlePruner
PruneEnter ==
    /\ ppc = "idle"
    /\ \E g \in {h \in PruneInputs : Cardinality(h.inside) <= MaxEdges} :
       \E k \in 1..MaxK :
          /\ geom' = g
          /\ geometry' = [ctype |-> "scalar", geoms |-> <<g>>, index |-> <<>>]
          /\ params' = [params EXCEPT !.min_branch_length = RInt(k)]
          /\ geom_for_voronoi' = g
          /\ voronoi_edges' = VoronoiPolygons(g)
          /\ line' = ExtractLines(VoronoiPolygons(g))
          /\ lines' = line'
          /\ lines_extracted' = line'
          /\ min_branch_length' = RInt(k)
          /\ min_branch_length_cur' = RInt(k)
    /\ pc' = "prune"
    /\ stages' = <<"remove_repeated_points", "voronoi", "filter", "prune">>
    /\ ppc' = "entry"
    /\ UNCHANGED <<cpc, result, returned, error, completed, average_width,
                   max_segment_length, tol, remove_one_by_one, line_cleaned,
                   pass_parts, pass_removed>>
PruneFairNext == PruneEnter \/ PruneNext
SpecPruneFair == InitPruneIdle /\ [][PruneFairNext]_vars /\ WF_vars(PruneFairNext)

\* the densify step alone: rectangles of 1..MaxSide by 1..MaxSide, with up to
\* MaxExtra vertices more on a side, and densify distances down to -1/MaxFine of
\* the average width
DensifyPolygons ==
    {Poly([i \in 1..(4 + e) |->
              IF i <= e THEN 1
              ELSE IF i = e + 1 THEN b - e
              ELSE IF i = e + 3 THEN b
              ELSE a],
          a * b, TRUE, "ok", "ok", "ok", "ok", OneEdge, {}) :
        <<a, b, e>> \in {t \in (1..MaxSide) \X (1..MaxSide) \X (0..MaxExtra) :
                             t[1] <= t[2] /\ t[3] < t[2]}}
DensifyDistancesFine ==
    {R(-1, f) : f \in 1..MaxFine} \cup {RInt(-2), RInt(2), R(1, 2)}
InitDensify ==
    /\ geom \in DensifyPolygons
    /\ geometry = [ctype |-> "scalar", geoms |-> <<geom>>, index |-> <<>>]
    /\ params \in [densify_distance : DensifyDistancesFine,
                    min_branch_length : {RInt(-1)},
                    simplifytolerance : {R(-1, 4)}, extend : {FALSE}]
    /\ cpc = "single"
    /\ result = <<>>
    /\ returned = NoValue
    /\ error = NoError
    /\ completed = <<>>
    /\ pc = "entry"
    /\ average_width = NoneNum
    /\ max_segment_length = NoneNum
    /\ geom_for_voronoi = geom
    /\ voronoi_edges = NoEdges
    /\ lines = NoneLine
    /\ min_branch_length_cur = NoneNum
    /\ tol = NoneNum
    /\ stages = <<>>
    /\ lines_extracted = NoneLine
    /\ IdlePruner

SpecDensify == InitDensify /\ [][Densify]_vars

\* _average_width alone, as _centerline calls it at line 190 (densify_distance 0,
\* min_branch_length -1).  It reads the perimeter and the area only: the inputs
\* are the rectangles of 1..MaxSide by 1..MaxSide and octagons of 8 equal sides
\* in 1..MaxSide with every area from 0 to that of the regular octagon
\* (2 (1 + sqrt 2) s^2, taken as 4.828 s^2) for which the square root is exact.
IsSquare(n) == n >= 0 /\ ISqrt(n) * ISqrt(n) = n
WidthPolygons ==
    {Poly(<<t[1], t[2], t[1], t[2]>>, t[1] * t[2], TRUE, "ok", "ok", "ok", "ok",
          OneEdge, {}) : t \in (1..MaxSide) \X (1..MaxSide)}
    \cup {Poly([i \in 1..8 |-> t[1]], t[2], TRUE, "ok", "ok", "ok", "ok",
               OneEdge, {}) :
             t \in {u \in (1..MaxSide) \X (0..(5 * MaxSide * MaxSide)) :
                       /\ 1000 * u[2] <= 4828 * u[1] * u[1]
                       /\ 4 * u[1] * u[1] <= u[2] \/ IsSquare(4 * u[1] * u[1] - u[2])}}
InitWidth ==
    /\ geom \in WidthPolygons
    /\ geometry = [ctype |-> "scalar", geoms |-> <<geom>>, index |-> <<>>]
    /\ params = [densify_distance |-> RZero, min_branch_length |-> RInt(-1),
                 simplifytolerance |-> NoneNum, extend |-> FALSE]
    /\ cpc = "single"
    /\ result = <<>>
    /\ returned = NoValue
    /\ error = NoError
    /\ completed = <<>>
    /\ pc = "resolve"
    /\ average_width = NoneNum
    /\ max_segment_length = NoneNum
    /\ geom_for_voronoi = geom
    /\ voronoi_edges = VoronoiPolygons(geom)
    /\ lines = ExtractLines(voronoi_edges)
    /\ lines_extracted = lines
    /\ min_branch_length_cur = NoneNum
    /\ tol = NoneNum
    /\ stages = <<"remove_repeated_points", "voronoi", "filter">>
    /\ IdlePruner

SpecWidth == InitWidth /\ [][PruneCall \/ PruneSkip]_vars

-----------------------------------------------------------------------------
(* Properties of the pruner (checked under SpecPrune) *)

\* another part of the set P has node n among its vertices
TouchedAt(P, p, n) == \E q \in P \ {p} : n \in PathNodes(q)
\* part p of P is a dangling branch: exactly one of its two ends is touched
Dangling(P, p) == TouchedAt(P, p, First(p)) # TouchedAt(P, p, Last(p))
\* part p of P is a bridge: both of its ends are touched
Bridge(P, p) == TouchedAt(P, p, First(p)) /\ TouchedAt(P, p, Last(p))
ShorterThan(p, k) == RLt(RInt(Length(p)), k)

\* C1: for a non-empty, non-None input skeleton and a min_branch_length > 0, what
\* _remove_short_branches_notempty returns is neither None nor empty, whatever
\* bulk mode and one by one mode gave.
C1_PrunerResultNotEmpty ==
    (ppc = "returned" /\ ~IsNone(line) /\ ~IsEmpty(line)
        /\ RLt(RZero, min_branch_length))
    => (~IsNone(lines) /\ ~IsEmpty(lines))

\* C1, its case: bulk mode removed every line of a non-empty skeleton, one by one
\* mode ran, and the pruner returned
C1_Witness ==
    /\ ppc = "returned"
    /\ remove_one_by_one
    /\ IsMultiLineString(line)
    /\ ~IsEmpty(lines)
    /\ lines # line

\* C3: no pass of the pruner, in bulk mode or one by one, removes a part that is
\* touched by other parts of that pass at both of its ends (a bridge).
C3_NoBridgeRemoved ==
    \A p \in pass_removed : p \in pass_parts /\ ~Bridge(pass_parts, p)

\* C3, its case: a pass removed parts while a bridge shorter than
\* min_branch_length was among the parts of that pass, and the bridge stayed
C3_Witness ==
    /\ pass_removed # {}
    /\ \E b \in pass_parts \ pass_removed :
           ShorterThan(b, min_branch_length) /\ Bridge(pass_parts, b)

\* C4: every part a pass removes is shorter than min_branch_length and dangling
\* in that pass, and a skeleton that bulk mode or one by one mode returned has no
\* dangling part shorter than min_branch_length left.
C4_RemovesExactlyShortDangling ==
    /\ \A p \in pass_removed :
           ShorterThan(p, min_branch_length) /\ Dangling(pass_parts, p)
    /\ (ppc = "returned" /\ ~NothingToClean(line, min_branch_length)
           /\ lines = line_cleaned)
       => \A p \in lines.parts :
              ~(ShorterThan(p, min_branch_length) /\ Dangling(lines.parts, p))

\* C4, its case: the pruner returned the result of a mode that removed parts in
\* several passes and left several lines, one of them exactly min_branch_length
\* long and dangling
C4_Witness ==
    /\ ppc = "returned"
    /\ lines = line_cleaned
    /\ IsMultiLineString(lines)
    /\ lines.parts # Normalize(line).parts
    /\ \E p \in lines.parts :
           REq(RInt(Length(p)), min_branch_length) /\ Dangling(lines.parts, p)

-----------------------------------------------------------------------------
(* Properties of centerline and _centerline (checked under Spec) *)

Range(f) == {f[i] : i \in DOMAIN f}
\* the call of _centerline is past its first line and has a polygon to work on
Working == pc # "idle" /\ ~GeomIsNone(geom) /\ ~GeomIsEmpty(geom)
\* the parameters with the multiplier m of the width replaced by the length itself
LiteralBranchLength ==
    [params EXCEPT !.min_branch_length =
        RMul(RAbs(params.min_branch_length), AverageWidth(geom))]
LiteralTolerance ==
    [params EXCEPT !.simplifytolerance =
        RMul(RAbs(params.simplifytolerance), AverageWidth(geom))]

\* C2: a call of centerline that does not raise returns, for every polygon that is
\* neither None nor empty and for all parameters, a geometry that is neither None
\* nor empty.
C2_CenterlineNotEmpty ==
    cpc = "returned"
    => \A i \in 1..Len(returned.values) :
           (~GeomIsNone(geometry.geoms[i]) /\ ~GeomIsEmpty(geometry.geoms[i]))
           => (~IsNone(returned.values[i]) /\ ~IsEmpty(returned.values[i]))

\* C5: with min_branch_length = -m the pruner gets m x average_width(P) and the
\* call ends as the call with that length as a literal ends, with the same lines
\* or by raising; simplifytolerance = -m is resolved by the same rule.
C5_NegativeMeansMultiplier ==
    /\ (Working /\ pc \in {"prune", "simplify", "extend", "normalize", "done"}
           /\ RLt(params.min_branch_length, RZero))
       => REq(min_branch_length_cur,
              RMul(RAbs(params.min_branch_length), AverageWidth(geom)))
    /\ (Working /\ pc \in {"done", "raised"}
           /\ RLt(params.min_branch_length, RZero))
       => /\ CenterlineAlone(geom, LiteralBranchLength).raised = (pc = "raised")
          /\ pc = "done" => lines = CenterlineAlone(geom, LiteralBranchLength).lines
    /\ (Working /\ pc \in {"extend", "normalize", "done"}
           /\ ~IsNoneNum(params.simplifytolerance)
           /\ RLt(params.simplifytolerance, RZero))
       => REq(tol, RMul(RAbs(params.simplifytolerance), AverageWidth(geom)))
    /\ (Working /\ pc \in {"done", "raised"}
           /\ ~IsNoneNum(params.simplifytolerance)
           /\ RLt(params.simplifytolerance, RZero))
       => /\ CenterlineAlone(geom, LiteralTolerance).raised = (pc = "raised")
          /\ pc = "done" => lines = CenterlineAlone(geom, LiteralTolerance).lines

\* C5, its case: a call with a negative min_branch_length and a negative
\* simplifytolerance ended, the width came from the densify step, the pruner
\* removed branches and simplify removed vertices
C5_Witness ==
    /\ pc = "done"
    /\ Working
    /\ RLt(params.min_branch_length, RZero)
    /\ ~IsNoneNum(params.simplifytolerance)
    /\ RLt(params.simplifytolerance, RZero)
    /\ RLt(params.densify_distance, RZero)
    /\ "prune" \in Range(stages)
    /\ ppc = "returned"
    /\ line_cleaned.parts # Normalize(line).parts
    /\ lines.parts # line_cleaned.parts

\* C6: with min_branch_length = 0 the pruner is not called, and the lines the
\* simplify step gets are the lines of the raw skeleton.
C6_ZeroMeansNoPruning ==
    (Working /\ REq(params.min_branch_length, RZero))
    => /\ ppc = "idle"
       /\ "prune" \notin Range(stages)
       /\ pc = "simplify" => lines = lines_extracted

\* C6, its case: the simplify step is next, min_branch_length is 0 and the raw
\* skeleton has dangling branches shorter than the width of the polygon
C6_Witness ==
    /\ pc = "simplify"
    /\ Working
    /\ REq(params.min_branch_length, RZero)
    /\ IsMultiLineString(lines)
    /\ \E p \in lines.parts :
           Dangling(lines.parts, p) /\ ShorterThan(p, AverageWidth(geom))

\* C8: for the input None and for an empty polygon centerline returns None, no
\* step of _centerline runs and nothing is raised.
C8_NoneAndEmptyGiveNone ==
    /\ geometry.ctype = "None"
       => /\ pc = "idle" /\ stages = <<>> /\ error = NoError
          /\ cpc \in {"call", "returned"}
          /\ cpc = "returned" => returned.ctype = "None"
    /\ (pc # "idle" /\ (GeomIsNone(geom) \/ GeomIsEmpty(geom)))
       => /\ pc \in {"entry", "done"} /\ stages = <<>> /\ error = NoError
          /\ ppc = "idle"
          /\ pc = "done" => IsNone(lines)
    /\ (cpc \in {"returned", "raised"} /\ geometry.ctype \in {"scalar", "ndarray0"}
           /\ (GeomIsNone(geometry.geoms[1]) \/ GeomIsEmpty(geometry.geoms[1])))
       => cpc = "returned" /\ returned.ctype = "None"

\* C8, its case: centerline returned for an empty polygon
C8_Witness ==
    /\ cpc = "returned"
    /\ geometry.ctype = "scalar"
    /\ GeomIsEmpty(geometry.geoms[1])
    /\ returned.ctype = "None"

\* C9: for an array-like of n geometries centerline returns n values, value i is
\* what the call for geometry i alone gives (None for None and for an empty
\* polygon), and the result for a GeoSeries has the index of the input.
C9_BatchCorrespondence ==
    (cpc = "returned" /\ IsArrayLike(geometry))
    => /\ Len(returned.values) = Len(geometry.geoms)
       /\ \A i \in 1..Len(geometry.geoms) :
              /\ i \in DOMAIN returned.values
              /\ ~CenterlineAlone(geometry.geoms[i], params).raised
              /\ returned.values[i] = CenterlineAlone(geometry.geoms[i], params).lines
              /\ (GeomIsNone(geometry.geoms[i]) \/ GeomIsEmpty(geometry.geoms[i]))
                 => IsNone(returned.values[i])
       /\ geometry.ctype = "geoseries"
          => returned.ctype = "geoseries" /\ returned.index = geometry.index
       /\ geometry.ctype = "list" => returned.ctype = "ndarray"

\* C9, its case: a GeoSeries of two polygons with different centerlines, after a
\* None element, gave its result
C9_Witness ==
    /\ cpc = "returned"
    /\ geometry.ctype = "geoseries"
    /\ Len(returned.values) >= 2
    /\ \E i, j \in DOMAIN returned.values :
           /\ i < j
           /\ ~IsNone(returned.values[i]) /\ ~IsNone(returned.values[j])
           /\ returned.values[i] # returned.values[j]
           /\ "prune" \in Range(stages)

\* C10 as stated: when a polygon of a batch fails the error names that polygon,
\* and the values computed for the polygons before it are what the caller gets.
C10_ResultsNotDiscarded ==
    (cpc = "raised" /\ IsArrayLike(geometry))
    => /\ error.ident = FormatShort(geometry.geoms[Len(completed) + 1])
       /\ \A i \in 1..Len(completed) :
              /\ i \in DOMAIN returned.values
              /\ returned.values[i] = completed[i].lines

\* C10 amended: when a polygon of a batch fails, the exception that leaves
\* centerline names that polygon by its type and first point; the call returns
\* nothing, the values computed for the polygons before it are dropped with the
\* list under construction (each was what the call for that polygon alone
\* gives), and no polygon after the failing one is processed.
C10_BatchFailsAsAWhole ==
    cpc = "raised"
    => /\ error.type # "none"
       /\ error.ident = <<"POLYGON", geom.first[1], geom.first[2]>>
       /\ ~GeomIsNone(geom)
       /\ returned = NoValue
       /\ result = <<>>
       /\ IsArrayLike(geometry)
          => /\ Len(completed) < Len(geometry.geoms)
             /\ geom = geometry.geoms[Len(completed) + 1]
             /\ CenterlineAlone(geom, params).raised
             /\ \A i \in 1..Len(completed) :
                    /\ completed[i].geom = geometry.geoms[i]
                    /\ completed[i].lines
                           = CenterlineAlone(geometry.geoms[i], params).lines

\* C10, its case: the second polygon of a batch failed after the first one gave
\* a centerline
C10_Witness ==
    /\ cpc = "raised"
    /\ IsArrayLike(geometry)
    /\ Len(completed) >= 1
    /\ ~IsNone(completed[1].lines)
    /\ Len(completed) + 1 <= Len(geometry.geoms)

-----------------------------------------------------------------------------
(* Properties of the densify step (checked under SpecDensify) *)

\* the densify step has run with a negative densify_distance
Densified == pc = "dedup" /\ RLt(params.densify_distance, RZero)
\* geom.length / max_segment_length / number of coordinates, for the
\* max_segment_length that segmentize got
EstimatedFactor ==
    RDiv(RDiv(RInt(GeomLength(geom)), max_segment_length),
         RInt(NumCoordinates(geom)))
\* the cap of lines 127-129 changed max_segment_length
Capped ==
    RLt(RMul(RAbs(params.densify_distance), AverageWidth(geom)),
        max_segment_length)

-----------------------------------------------------------------------------
(* Properties of the error handling of _centerline (checked under Spec) *)

\* C11: an exception a step of _centerline raises (the two retried kernel
\* failures apart) leaves _centerline as an exception of the same type that names
\* the input geometry by format_short; the call never goes on after it and no
\* result is returned for that polygon.
C11_FailLoud ==
    /\ [](pc \in {"except", "raised"} <=> (pc # "idle" /\ error.type # "none"))
    /\ [](pc = "raised"
            => /\ error.ident = <<"POLYGON", geom.first[1], geom.first[2]>>
               /\ returned = NoValue
               /\ Len(completed) < Len(geometry.geoms))
    /\ [][/\ pc = "except"
             => /\ pc' = "raised"
                /\ error'.type = error.type
                /\ error'.ident = <<"POLYGON", geom.first[1], geom.first[2]>>
          /\ pc = "raised" => pc' = "raised" /\ returned' = NoValue
                                /\ completed' = completed
          /\ (error.type = "none" /\ error'.type # "none") => pc' = "except"]_vars

\* C11, its case: extend_line_to_geometry raised a ValueError, which no retry
\* anticipates, and it left _centerline
C11_Witness ==
    /\ pc = "raised"
    /\ error.type = "ValueError"
    /\ "extend" \in Range(stages)
    /\ error.ident = FormatShort(geom)

-----------------------------------------------------------------------------
(* Connectivity of the skeleton under pruning (checked under SpecPrune) *)

\* the unit edges a line geometry is made of, and the nodes they touch
EdgesOf(g) == {Seg(p[i], p[i + 1]) : <<p, i>> \in
                  {t \in g.parts \X (1..(GridW * GridH)) : t[2] < Len(t[1])}}
NodesOf(E) == {e[1] : e \in E} \cup {e[2] : e \in E}
\* the nodes a chain of touching edges of E leads to from the nodes S
RECURSIVE Closure(_, _)
Closure(E, S) ==
    LET T == S \cup {e[1] : e \in {f \in E : f[2] \in S}}
               \cup {e[2] : e \in {f \in E : f[1] \in S}}
    IN  IF T = S THEN S ELSE Closure(E, T)
ConnectedIn(E, e, f) == f[1] \in Closure(E, {e[1]})
NumComponents(E) == Cardinality({Closure(E, {n}) : n \in NodesOf(E)})
\* the skeleton the pruner holds: line_cleaned in the loop, lines once returned
Pruned == IF ppc = "returned" THEN lines ELSE line_cleaned

\* C12: at every point of the pruning, in either mode, the surviving edges are
\* edges of the input, two surviving edges that a chain of touching edges joined
\* in the input are still joined by surviving edges, and the surviving edges
\* have no more connected components than the input.
C12_NeverDisconnects ==
    (ppc \in {"loop", "after", "returned"} /\ ~IsNone(Pruned))
    => /\ EdgesOf(Pruned) \subseteq EdgesOf(line)
       /\ \A e, f \in EdgesOf(Pruned) :
              ConnectedIn(EdgesOf(line), e, f) => ConnectedIn(EdgesOf(Pruned), e, f)
       /\ NumComponents(EdgesOf(Pruned)) <= NumComponents(EdgesOf(line))

\* C12, its case: passes removed branches of a skeleton of two components and
\* both components still have edges
C12_Witness ==
    /\ ppc = "after"
    /\ EdgesOf(line_cleaned) # EdgesOf(line)
    /\ NumComponents(EdgesOf(line_cleaned)) = 2
    /\ NumComponents(EdgesOf(line)) = 2

-----------------------------------------------------------------------------
(* Properties of the simplify and densify policies (checked under Spec) *)

\* what the pruning stage hands on for the raw skeleton of this call
AfterPruning ==
    IF PruneWanted(min_branch_length_cur)
    THEN RemoveShortBranchesNotEmpty(lines_extracted, min_branch_length_cur)
    ELSE lines_extracted

\* C13: with simplifytolerance = 0 no simplification is performed: simplify is
\* not run and the lines handed to extend have exactly the vertices the pruning
\* stage produced.
C13_ZeroMeansNoSimplify ==
    (Working /\ pc = "extend" /\ ~IsNoneNum(params.simplifytolerance)
        /\ REq(params.simplifytolerance, RZero))
    => /\ "simplify" \notin Range(stages)
       /\ lines = AfterPruning

\* the densify step of this call has just run
JustDensified == Working /\ pc = "dedup"
\* side i of the densified polygon is divided as a maximum segment length m asks
DividedBy(i, m) ==
    LET n == geom_for_voronoi.pieces[i]
    IN  /\ RLe(RInt(geom.sides[i]), RMul(RInt(n), m))
        /\ n = 1 \/ RLt(RMul(RInt(n - 1), m), RInt(geom.sides[i]))
\* |densify_distance| x average width, and the factor the cap looks at
WidthLength == RMul(RAbs(params.densify_distance), AverageWidth(geom))
UncappedFactor ==
    RDiv(RDiv(RInt(GeomLength(geom)), WidthLength), RInt(NumCoordinates(geom)))

\* C14: with densify_distance = 0 the polygon is not segmentized; with
\* densify_distance > 0 segmentize gets exactly densify_distance; with
\* densify_distance < 0 and a compactness below 0.001 the step does nothing
\* (max_segment_length 0, no segmentize, no average width); otherwise the length
\* is |densify_distance| x average width, scaled up by factor / 10 only when the
\* cap applies.
C14_DensifyPolicy ==
    JustDensified
    => /\ REq(params.densify_distance, RZero)
          => /\ stages = <<>>
             /\ geom_for_voronoi = geom
             /\ IsNoneNum(average_width)
       /\ RLt(RZero, params.densify_distance)
          => /\ max_segment_length = params.densify_distance
             /\ stages = <<"segmentize">>
             /\ IsNoneNum(average_width)
             /\ \A i \in DOMAIN geom.sides : DividedBy(i, params.densify_distance)
       /\ (RLt(params.densify_distance, RZero) /\ CompactnessBelowLimit(geom))
          => /\ REq(max_segment_length, RZero)
             /\ stages = <<>>
             /\ geom_for_voronoi = geom
             /\ IsNoneNum(average_width)
       /\ (RLt(params.densify_distance, RZero) /\ ~CompactnessBelowLimit(geom))
          => /\ REq(average_width, AverageWidth(geom))
             /\ stages = <<"average_width", "segmentize">>
             /\ REq(max_segment_length,
                    IF RLt(RInt(max_factor_increase), UncappedFactor)
                    THEN RDiv(RMul(WidthLength, UncappedFactor),
                              RInt(max_factor_increase))
                    ELSE WidthLength)
             /\ \A i \in DOMAIN geom.sides : DividedBy(i, max_segment_length)

\* C14, its case: the densify step ran with a negative densify_distance on a
\* polygon with a compactness below 0.001
C14_Witness ==
    /\ JustDensified
    /\ RLt(params.densify_distance, RZero)
    /\ CompactnessBelowLimit(geom)
    /\ geom_for_voronoi = geom

-----------------------------------------------------------------------------
(* Properties of _average_width (checked under SpecWidth) *)

\* _average_width has been called for geom and its value is in average_width
WidthComputed == pc \in {"prune", "simplify"} /\ ~IsNoneNum(average_width)
QuarterPerimeter == R(GeomLength(geom), 4)
HalfPerimeter == R(GeomLength(geom), 2)
IsRectangle(g) ==
    /\ Len(g.sides) = 4
    /\ g.sides[1] = g.sides[3] /\ g.sides[2] = g.sides[4]
    /\ g.area = g.sides[1] * g.sides[2]

\* C15: for perimeter P and area A _average_width is the smaller root of
\* width x length = A, 2 (width + length) = P, that is P/4 - sqrt((P/4)^2 - A);
\* it is P/4 when (P/4)^2 < A; it is never negative and never above P/4; for an
\* a x b rectangle it is the smaller of a and b.
C15_WidthEstimator ==
    WidthComputed
    => /\ RLe(RZero, average_width)
       /\ RLe(average_width, QuarterPerimeter)
       /\ 16 * geom.area <= GeomLength(geom) * GeomLength(geom)
          => REq(RMul(average_width, RSub(HalfPerimeter, average_width)),
                 RInt(geom.area))
       /\ 16 * geom.area > GeomLength(geom) * GeomLength(geom)
          => REq(average_width, QuarterPerimeter)
       /\ IsRectangle(geom)
          => REq(average_width,
                 RInt(IF geom.sides[1] < geom.sides[2] THEN geom.sides[1]
                      ELSE geom.sides[2]))

\* C15, its case: the width was computed for a polygon with (P/4)^2 < A
C15_Witness ==
    /\ WidthComputed
    /\ 16 * geom.area > GeomLength(geom) * GeomLength(geom)
    /\ REq(average_width, QuarterPerimeter)
    /\ REq(min_branch_length_cur, QuarterPerimeter)

-----------------------------------------------------------------------------
(* extend_line_to_geometry on coordinates (src/pygeoops/_extend_line.py).     *)
(* A point is a pair <<x, y>> of integers, a linestring the sequence of its   *)
(* coordinates, a line geometry a record of its kind and the sequence of its  *)
(* parts. The geometry extended to is a box, known by its bounds              *)
(* <<minx, miny, maxx, maxy>>; its boundary is the ring of the four sides.    *)
(* The segments of the lines are horizontal, vertical or of slope 1 or -1, so *)
(* every crossing of a side of the box lies on a point of integer             *)
(* coordinates.                                                               *)

ExtBox == 4
MaxParts == 3

\* Point(q) intersects the segment from a to c
OnSegment(q, a, c) ==
    /\ (c[1] - a[1]) * (q[2] - a[2]) = (c[2] - a[2]) * (q[1] - a[1])
    /\ (a[1] <= q[1] /\ q[1] <= c[1]) \/ (c[1] <= q[1] /\ q[1] <= a[1])
    /\ (a[2] <= q[2] /\ q[2] <= c[2]) \/ (c[2] <= q[2] /\ q[2] <= a[2])

\* shapely.intersects(Point(q), linestring)
PointOnLine(q, coords) ==
    \E i \in 1..(Len(coords) - 1) : OnSegment(q, coords[i], coords[i + 1])

\* extend_to.intersects(Point(q)) for the boundary of the box of bounds b
OnBoundary(b, q) ==
    /\ b[1] <= q[1] /\ q[1] <= b[3] /\ b[2] <= q[2] /\ q[2] <= b[4]
    /\ q[1] \in {b[1], b[3]} \/ q[2] \in {b[2], b[4]}

\* _extend_segment_to_bbox: the two points of the line through p1 and p2 taken
\* as lying on the bounding box b, the one on the side of p1 first. For a line
\* of slope k = 1 or -1 dividing by k is multiplying by it.
extend_segment_to_bbox(p1, p2, b) ==
    IF p1[1] = p2[1]
    THEN IF p1[2] < p2[2]
         THEN << <<p1[1], b[2]>>, <<p1[1], b[4]>> >>
         ELSE << <<p1[1], b[4]>>, <<p1[1], b[2]>> >>
    ELSE IF p1[2] = p2[2]
    THEN IF p1[1] < p2[1]
         THEN << <<b[1], p1[2]>>, <<b[3], p1[2]>> >>
         ELSE << <<b[3], p1[2]>>, <<b[1], p1[2]>> >>
    ELSE LET k == IF (p2[2] > p1[2]) = (p2[1] > p1[1]) THEN 1 ELSE -1
             m == p1[2] - k * p1[1]
             points_on_boundary_lines ==
                 << <<b[1], k * b[1] + m>>, <<b[3], k * b[3] + m>>,
                    <<(b[2] - m) * k, b[2]>>, <<(b[4] - m) * k, b[4]>> >>
             \* bbox_geom.distance(q), squared
             off(v, lo, hi) == IF v < lo THEN lo - v ELSE IF v > hi THEN v - hi ELSE 0
             distance(i) ==
                 LET q == points_on_boundary_lines[i]
                 IN  off(q[1], b[1], b[3]) * off(q[1], b[1], b[3])
                     + off(q[2], b[2], b[4]) * off(q[2], b[2], b[4])
             \* sorted() is stable: how many points come before point i
             rank(i) == Cardinality({j \in 1..4 :
                            \/ distance(j) < distance(i)
                            \/ distance(j) = distance(i) /\ j < i})
             p_extended1 == points_on_boundary_lines[CHOOSE i \in 1..4 : rank(i) = 0]
             p_extended2 == points_on_boundary_lines[CHOOSE i \in 1..4 : rank(i) = 1]
         IN  IF p1[1] < p2[1]
             THEN IF p_extended1[1] < p_extended2[1]
                  THEN <<p_extended1, p_extended2>>
                  ELSE <<p_extended2, p_extended1>>
             ELSE IF p_extended1[1] > p_extended2[1]
                  THEN <<p_extended1, p_extended2>>
                  ELSE <<p_extended2, p_extended1>>

\* _find_closest_extend_point: where the end p2 of the segment from p1 goes
find_closest_extend_point(p1, p2, b) ==
    IF OnBoundary(b, p2) THEN p2
    ELSE LET p2_ext == extend_segment_to_bbox(p1, p2, b)[2]
             intersection_points ==
                 {q \in (b[1]..b[3]) \X (b[2]..b[4]) :
                     OnBoundary(b, q) /\ OnSegment(q, p2, p2_ext)}
             d(q) == (q[1] - p2[1]) * (q[1] - p2[1]) + (q[2] - p2[2]) * (q[2] - p2[2])
         IN  IF intersection_points = {} THEN p2
             ELSE CHOOSE q \in intersection_points :
                      \A r \in intersection_points : d(q) <= d(r)

\* lines 114 and 122: the point intersects none of the blockers
NotBlocked(q, extend_to_blockers) ==
    ~\E i \in 1..Len(extend_to_blockers) : PointOnLine(q, extend_to_blockers[i])

\* _extend_linestring_to_line
extend_linestring_to_line(line_coords, b, extend_to_blockers) ==
    LET n == Len(line_coords)
        first == IF NotBlocked(line_coords[1], extend_to_blockers)
                 THEN find_closest_extend_point(line_coords[2], line_coords[1], b)
                 ELSE line_coords[1]
        last  == IF NotBlocked(line_coords[n], extend_to_blockers)
                 THEN find_closest_extend_point(line_coords[n - 1], line_coords[n], b)
                 ELSE line_coords[n]
    IN  [i \in 1..n |-> IF i = n THEN last ELSE IF i = 1 THEN first
                        ELSE line_coords[i]]

\* lines 67 to 70: the parts of a MultiLineString other than part curr_idx
OtherBranches(geoms, curr_idx) ==
    LET idx == {i \in 1..Len(geoms) : i # curr_idx}
        nth(k) == CHOOSE i \in idx : Cardinality({j \in idx : j < i}) = k - 1
    IN  [k \in 1..Cardinality(idx) |-> geoms[nth(k)]]

\* extend_line_to_geometry(line, extend_to) with line in the variable line and
\* extend_to in the variable geom
extend_line_to_geometry ==
    /\ cpc = "call"
    /\ IF geom.kind \notin {"Polygon", "MultiPolygon", "LineString", "MultiLineString"}
       THEN /\ error' = Raised("ValueError")
            /\ cpc' = "raised"
            /\ UNCHANGED <<result, returned>>
       ELSE IF line.kind = "LineString"
       THEN /\ result' = [kind |-> "LineString",
                          geoms |-> <<extend_linestring_to_line(
                                          line.geoms[1], geom.bounds, <<>>)>>]
            /\ returned' = result'
            /\ cpc' = "returned"
            /\ UNCHANGED error
       ELSE IF line.kind = "MultiLineString"
       THEN /\ result' = [kind |-> "MultiLineString",
                          geoms |-> [i \in 1..Len(line.geoms) |->
                                        extend_linestring_to_line(
                                            line.geoms[i], geom.bounds,
                                            OtherBranches(line.geoms, i))]]
            /\ returned' = result'
            /\ cpc' = "returned"
            /\ UNCHANGED error
       ELSE /\ error' = Raised("ValueError")
            /\ cpc' = "raised"
            /\ UNCHANGED <<result, returned>>
    /\ UNCHANGED <<geometry, params, completed, lvars, ppc, line, min_branch_length,
                   remove_one_by_one, line_cleaned, pass_parts, pass_removed>>

\* The calls explored: a box of side ExtBox from the origin or a point as
\* extend_to; as line a point, a linestring, or a MultiLineString of up to
\* MaxParts parts, in every order, taken among the segments between seven
\* points (inside the box, on its boundary, outside of it) and two lines of
\* three points.
ExtendParts ==
    LET ExtendPoints == {<<1, 2>>, <<2, 2>>, <<3, 3>>, <<3, 1>>, <<2, ExtBox>>,
                         <<ExtBox + 1, 2>>, <<ExtBox + 1, 3>>}
    IN
    {s \in ExtendPoints \X ExtendPoints :
        /\ s[1] # s[2]
        /\ \/ s[1][1] = s[2][1]
           \/ s[1][2] = s[2][2]
           \/ s[1][1] - s[2][1] = s[1][2] - s[2][2]
           \/ s[1][1] - s[2][1] = s[2][2] - s[1][2]}
    \cup { << <<1, 2>>, <<2, 2>>, <<3, 3>> >>, << <<3, 1>>, <<2, 2>>, <<2, 3>> >> }
ExtendLines ==
    {[kind |-> "Point", geoms |-> << << <<1, 2>> >> >>]}
    \cup {[kind |-> "LineString", geoms |-> <<p>>] : p \in ExtendParts}
    \cup UNION {{[kind |-> "MultiLineString", geoms |-> g] : g \in [1..n -> ExtendParts]} :
                   n \in 1..MaxParts}
ExtendTargets ==
    {[kind |-> "Polygon", bounds |-> <<0, 0, ExtBox, ExtBox>>],
     [kind |-> "Point", bounds |-> <<1, 1, 1, 1>>]}

InitExtend ==
    /\ line \in ExtendLines
    /\ geom \in ExtendTargets
    /\ geometry = [ctype |-> "scalar", geoms |-> <<geom>>, index |-> <<>>]
    /\ params = [densify_distance |-> RZero, min_branch_length |-> RZero,
                 simplifytolerance |-> NoneNum, extend |-> TRUE]
    /\ cpc = "call"
    /\ result = <<>>
    /\ returned = NoValue
    /\ error = NoError
    /\ completed = <<>>
    /\ pc = "idle"
    /\ average_width = NoneNum
    /\ max_segment_length = NoneNum
    /\ geom_for_voronoi = NoneGeom
    /\ voronoi_edges = NoEdges
    /\ lines = NoneLine
    /\ lines_extracted = NoneLine
    /\ min_branch_length_cur = NoneNum
    /\ tol = NoneNum
    /\ stages = <<>>
    /\ ppc = "idle"
    /\ min_branch_length = NoneNum
    /\ remove_one_by_one = FALSE
    /\ line_cleaned = NoneLine
    /\ pass_parts = {}
    /\ pass_removed = {}

SpecExtend == InitExtend /\ [][extend_line_to_geometry]_vars

-----------------------------------------------------------------------------
(* Properties of extend_line_to_geometry (checked under SpecExtend) *)

\* the end q of part i touches another part of the MultiLineString
TouchesOtherBranch(geoms, i, q) ==
    \E j \in 1..Len(geoms) : j # i /\ PointOnLine(q, geoms[j])
\* the extension of the segment from prev beyond its end q, a half-line, meets
\* the boundary of the box of bounds b
ExtensionMeetsBoundary(b, prev, q) ==
    \E r \in (b[1]..b[3]) \X (b[2]..b[4]) :
        /\ OnBoundary(b, r)
        /\ (q[1] - prev[1]) * (r[2] - q[2]) = (q[2] - prev[2]) * (r[1] - q[1])
        /\ (q[1] - prev[1]) * (r[1] - q[1]) + (q[2] - prev[2]) * (r[2] - q[2]) > 0
\* the end q of part i, reached from prev, is one that has to stay where it is
MustStay(i, prev, q) ==
    \/ TouchesOtherBranch(line.geoms, i, q)
    \/ OnBoundary(geom.bounds, q)
    \/ ~ExtensionMeetsBoundary(geom.bounds, prev, q)
\* a MultiLineString was extended to the boundary of a polygon
ExtendedMulti == cpc = "returned" /\ line.kind = "MultiLineString"

\* C16: extend_line_to_geometry on a MultiLineString returns as many parts, in
\* the same order, each with its interior vertices; an end that touches another
\* part, that is on the boundary already, or whose extension meets no boundary
\* is where it was.
C16_ExtendFrame ==
    ExtendedMulti =>
        /\ returned.kind = "MultiLineString"
        /\ Len(returned.geoms) = Len(line.geoms)
        /\ \A i \in 1..Len(line.geoms) :
              LET old == line.geoms[i]
                  new == returned.geoms[i]
                  n == Len(old)
              IN  /\ Len(new) = n
                  /\ \A j \in 2..(n - 1) : new[j] = old[j]
                  /\ MustStay(i, old[2], old[1]) => new[1] = old[1]
                  /\ MustStay(i, old[n - 1], old[n]) => new[n] = old[n]

-----------------------------------------------------------------------------
(* simplify (src/pygeoops/_simplify.py).                                      *)
(* A geometry is a record of its kind, the number n of coordinates of its     *)
(* line or exterior ring, the number kept of them that the simplification     *)
(* algorithm keeps (what the algorithm answers is an input of the model), and *)
(* the sequence geoms of its parts; polygons have no interior ring and the    *)
(* parts of a multi-part geometry are not multi-part themselves.              *)

MaxCoords == 4

SGeom(kind, n, kept, geoms) == [kind |-> kind, n |-> n, kept |-> kept, geoms |-> geoms]
SNone == SGeom("None", 0, 0, <<>>)

\* str.lower() on the names explored
Lower(algorithm) == IF algorithm = "RDP" THEN "rdp" ELSE algorithm

\* shapely.simplify: every line and ring keeps the coordinates chosen
shapely_simplify(g) ==
    LET keep(h) == [h EXCEPT !.n = h.kept]
    IN  [keep(g) EXCEPT !.geoms = [i \in DOMAIN g.geoms |-> keep(g.geoms[i])]]

\* simplify_coords: the number of coordinates kept, or the error raised
simplify_coords(coords, algorithm) ==
    IF algorithm = "rdp" THEN [raised |-> "none", len |-> coords.kept]
    ELSE IF algorithm = "vw" THEN [raised |-> "none", len |-> coords.kept]
    ELSE IF algorithm \in {"lang", "lang+"} THEN [raised |-> "none", len |-> coords.kept]
    ELSE [raised |-> "ValueError", len |-> 0]

\* simplify_linestring
simplify_linestring(linestring, algorithm, preserve_topology) ==
    IF linestring.n <= 2 THEN [raised |-> "none", value |-> linestring]
    ELSE LET coords_simpl == simplify_coords(linestring, algorithm)
         IN  IF coords_simpl.raised # "none"
             THEN [raised |-> coords_simpl.raised, value |-> SNone]
             ELSE IF coords_simpl.len < 2
             THEN [raised |-> "none",
                   value |-> IF preserve_topology THEN linestring ELSE SNone]
             ELSE [raised |-> "none",
                   value |-> [linestring EXCEPT !.n = coords_simpl.len]]

\* simplify_polygon, for a polygon without interior ring whose simplified ring
\* is valid
simplify_polygon(polygon, algorithm, preserve_topology) ==
    LET exterior_simpl == simplify_coords(polygon, algorithm)
    IN  IF exterior_simpl.raised # "none"
        THEN [raised |-> exterior_simpl.raised, value |-> SNone]
        ELSE IF exterior_simpl.len < 3
        THEN [raised |-> "none",
              value |-> IF preserve_topology THEN polygon ELSE SNone]
        ELSE [raised |-> "none", value |-> [polygon EXCEPT !.n = exterior_simpl.len]]

\* general.collect of a sequence of geometries none of which is multi-part
collect(geometries) ==
    LET kept == SelectSeq(geometries, LAMBDA h : h.kind # "None")
    IN  IF Len(kept) = 0 THEN SNone
        ELSE IF Len(kept) = 1 THEN kept[1]
        ELSE IF \A i \in 1..Len(kept) : kept[i].kind = kept[1].kind
        THEN SGeom("Multi" \o kept[1].kind, 0, 0, kept)
        ELSE SGeom("GeometryCollection", 0, 0, kept)

\* _simplify. In the chain of tests on the algorithm the third one,
\* elif "lang+":, tests a string that is not empty, which is true.
RECURSIVE simplify_impl(_, _)
simplify_impl(g, prm) ==
    LET algorithm == Lower(prm.algorithm)
        checked ==
            IF algorithm \in {"rdp", "vw"}
            THEN IF ~prm.HAS_SIMPLIFICATION THEN "ImportError" ELSE "none"
            ELSE IF algorithm = "lang" THEN "none"
            ELSE IF TRUE THEN "none"
            ELSE "ValueError"
    IN  IF g.kind = "None" THEN [raised |-> "none", value |-> SNone]
        ELSE IF algorithm = "rdp" /\ ~prm.keep_points_on
        THEN [raised |-> "none", value |-> shapely_simplify(g)]
        ELSE IF checked # "none" THEN [raised |-> checked, value |-> SNone]
        ELSE IF g.kind \in {"Point", "MultiPoint"} THEN [raised |-> "none", value |-> g]
        ELSE IF g.kind = "LineString"
        THEN simplify_linestring(g, algorithm, prm.preserve_topology)
        ELSE IF g.kind = "Polygon"
        THEN simplify_polygon(g, algorithm, prm.preserve_topology)
        ELSE LET simplified_geometries ==
                     [i \in DOMAIN g.geoms |-> simplify_impl(g.geoms[i], prm)]
                 failed == {i \in DOMAIN g.geoms :
                               simplified_geometries[i].raised # "none"}
             IN  IF failed # {}
                 THEN [raised |-> simplified_geometries[
                                      CHOOSE i \in failed : \A j \in failed : i <= j].raised,
                       value |-> SNone]
                 ELSE [raised |-> "none",
                       value |-> collect([i \in DOMAIN g.geoms |->
                                             simplified_geometries[i].value])]

\* simplify(geometry, tolerance, algorithm, ...) with preserve_common_boundaries
\* False: the geometry is in the variable geom, the other arguments in params
simplify ==
    /\ cpc = "call"
    /\ LET r == IF geom.kind = "None" THEN [raised |-> "none", value |-> SNone]
                ELSE IF Lower(params.algorithm) = "rdp" /\ ~params.keep_points_on
                THEN [raised |-> "none", value |-> shapely_simplify(geom)]
                ELSE simplify_impl(geom, params)
       IN  IF r.raised = "none"
           THEN /\ returned' = r.value
                /\ cpc' = "returned"
                /\ UNCHANGED error
           ELSE /\ error' = Raised(r.raised)
                /\ cpc' = "raised"
                /\ UNCHANGED returned
    /\ UNCHANGED <<geometry, params, result, completed, lvars, pvars>>

\* The calls explored: None, a point, a MultiPoint, lines and rings of up to
\* MaxCoords coordinates with every number of coordinates kept, and multi-part
\* geometries of two parts; the four algorithms, one of them also in capitals,
\* and a name that is none of them.
SimplifyGeoms ==
    LET SimplifySingles ==
            {SGeom("Point", 1, 1, <<>>)}
            \cup {SGeom("LineString", t[1], t[2], <<>>) :
                     t \in {u \in (2..MaxCoords) \X (0..MaxCoords) : u[2] <= u[1]}}
            \cup {SGeom("Polygon", t[1], t[2], <<>>) :
                     t \in {u \in (4..(MaxCoords + 1)) \X (0..(MaxCoords + 1)) :
                               u[2] <= u[1]}}
    IN
    {SNone, SGeom("MultiPoint", 2, 2, <<>>)} \cup SimplifySingles
    \cup {SGeom(IF g[1].kind = g[2].kind THEN "Multi" \o g[1].kind
                ELSE "GeometryCollection", 0, 0, g) :
             g \in {h \in [1..2 -> SimplifySingles] :
                       h[1].n >= h[1].kept /\ h[2].kept \in {0, h[2].n}}}
SimplifyParams ==
    [algorithm : {"rdp", "vw", "lang", "lang+", "RDP", "invalid!"},
     keep_points_on : BOOLEAN, preserve_topology : BOOLEAN,
     HAS_SIMPLIFICATION : BOOLEAN]

InitSimplify ==
    /\ geom \in SimplifyGeoms
    /\ params \in SimplifyParams
    /\ geometry = [ctype |-> "scalar", geoms |-> <<geom>>, index |-> <<>>]
    /\ cpc = "call"
    /\ result = <<>>
    /\ returned = NoValue
    /\ error = NoError
    /\ completed = <<>>
    /\ pc = "idle"
    /\ average_width = NoneNum
    /\ max_segment_length = NoneNum
    /\ geom_for_voronoi = NoneGeom
    /\ voronoi_edges = NoEdges
    /\ lines = NoneLine
    /\ lines_extracted = NoneLine
    /\ min_branch_length_cur = NoneNum
    /\ tol = NoneNum
    /\ stages = <<>>
    /\ IdlePruner

SpecSimplify == InitSimplify /\ [][simplify]_vars

-----------------------------------------------------------------------------
(* Properties of simplify (checked under SpecSimplify) *)

\* the call is over
SimplifyDone == cpc \in {"returned", "raised"}
\* the algorithm asked for is, capitals apart, none of the four supported ones
UnknownAlgorithm == Lower(params.algorithm) \notin {"rdp", "lang", "lang+", "vw"}

\* C17: simplify with an algorithm other than "rdp", "lang", "lang+" and "vw"
\* on a geometry that is not None raises a ValueError and returns no geometry.
C17_UnknownAlgorithmRaises ==
    (SimplifyDone /\ UnknownAlgorithm /\ geom.kind # "None") =>
        /\ cpc = "raised"
        /\ error.type = "ValueError"
        /\ returned = NoValue

-----------------------------------------------------------------------------
(* Escalation of the pruner (checked under SpecPrune) *)

\* a mode of the pruner has ended with the result x, None or empty
EndedEmpty(x) == IsNone(x) \/ IsEmpty(x)
\* a call of _remove_short_branches has ended
ModeEnded == ppc = "after"

\* C18: the first mode the pruner runs is bulk mode; one by one mode starts if
\* and only if bulk mode ended None or empty, and starts from the input line;
\* a bulk result that is not empty is returned as it is; after one by one mode
\* the input line is returned if and only if that mode ended None or empty too.
C18_EscalationOrder ==
    [][ /\ (ppc = "entry" /\ ppc' = "loop") => ~remove_one_by_one'
        /\ remove_one_by_one => remove_one_by_one'
        /\ (~remove_one_by_one /\ remove_one_by_one') =>
              /\ ModeEnded /\ EndedEmpty(line_cleaned)
              /\ ppc' = "loop"
              /\ line_cleaned' = Normalize(line)
        /\ (ModeEnded /\ ~remove_one_by_one /\ EndedEmpty(line_cleaned)) =>
              remove_one_by_one'
        /\ (ModeEnded /\ ~remove_one_by_one /\ ~EndedEmpty(line_cleaned)) =>
              (ppc' = "returned" /\ lines' = line_cleaned)
        /\ (ModeEnded /\ remove_one_by_one) =>
              /\ ppc' = "returned"
              /\ EndedEmpty(line_cleaned) => lines' = line
              /\ ~EndedEmpty(line_cleaned) => (lines' = line_cleaned /\ lines' # line)
      ]_vars

\* C18, its case: bulk mode ended empty on a skeleton that is not empty, one by
\* one mode ran from the input and what it left, not empty, was returned
C18_Witness ==
    /\ ppc = "returned"
    /\ remove_one_by_one
    /\ ~EndedEmpty(line)
    /\ ~EndedEmpty(line_cleaned)
    /\ lines = line_cleaned
    /\ lines # line

-----------------------------------------------------------------------------
(* The rule of one pass (checked under SpecPrune) *)

\* part p of the pass is shorter than min_branch_length and dangling
Qualifies(p) == ShorterThan(p, min_branch_length) /\ Dangling(pass_parts, p)

\* C19 as stated: in every pass a part is marked for removal if and only if it
\* is shorter than min_branch_length and exactly one of its ends touches
\* another part of the pass.
C19_MarkedIffShortDangling ==
    \A p \in pass_parts : (p \in pass_removed) <=> Qualifies(p)

\* C19, amended: in every pass only parts that are shorter than
\* min_branch_length and dangling are marked, so no part of at least
\* min_branch_length and no standalone part is; a pass of bulk mode marks all
\* of them, a pass of one by one mode marks one of the shortest of them only.
C19_PassRule ==
    /\ pass_removed \subseteq pass_parts
    /\ \A p \in pass_removed : Qualifies(p)
    /\ ~remove_one_by_one => \A p \in pass_parts : Qualifies(p) => p \in pass_removed
    /\ remove_one_by_one =>
          /\ Cardinality(pass_removed) <= 1
          /\ (\E p \in pass_parts : Qualifies(p)) => pass_removed # {}
          /\ \A p \in pass_removed : \A q \in pass_parts :
                Qualifies(q) => Length(p) <= Length(q)

\* C19, its case: a pass of one by one mode marked one part and left another
\* one that is shorter than min_branch_length and dangling
C19_Witness ==
    /\ remove_one_by_one
    /\ Cardinality(pass_removed) = 1
    /\ \E q \in pass_parts \ pass_removed : Qualifies(q)

\* the parts of the pass marked for removal before part p is looked at that are
\* shorter than p
MarkedBefore(p) == {q \in pass_removed : Length(q) < Length(p)}

\* C20: the parts of a pass are looked at from the shortest to the longest, and
\* no part is marked for removal because of an end that touches only shorter
\* parts marked before it in the same pass: without them it is dangling too.
C20_NoStaleAdjacency ==
    \A p \in pass_removed : Dangling(pass_parts \ MarkedBefore(p), p)

-----------------------------------------------------------------------------
(* What a pass removes in each mode (checked under SpecPrune) *)

\* the ends of part p
Ends(p) == {First(p), Last(p)}
\* two different parts of P end in a node where no third part ends and where
\* none of the two ends twice: a line merge has something left to join
Unmerged(P) ==
    \E p \in P : \E q \in P \ {p} : \E n \in Ends(p) \cap Ends(q) :
        /\ \A r \in P \ {p, q} : n \notin Ends(r)
        /\ First(p) # Last(p) /\ First(q) # Last(q)
\* part p of P is below length k and dangling
ShortDangling(P, p, k) == ShorterThan(p, k) /\ Dangling(P, p)
\* a pass of the loop that changes line_cleaned
RemovingPass == ppc = "loop" /\ ppc' = "loop" /\ line_cleaned' # line_cleaned

\* C21: a pass of one by one mode removes one part only, one of the shortest
\* parts of the pass that are below min_branch_length and dangling; a pass of
\* bulk mode removes all such parts at once; in both modes what is left is
\* line-merged before the next pass.
C21_OnePerPass ==
    [][ RemovingPass =>
          LET P == line_cleaned.parts
              left == [kind |-> "MultiLineString", parts |-> P \ pass_removed']
          IN  /\ pass_removed' # {}
              /\ pass_removed' \subseteq P
              /\ remove_one_by_one =>
                    /\ Cardinality(pass_removed') = 1
                    /\ \A p \in pass_removed' :
                          /\ ShortDangling(P, p, min_branch_length)
                          /\ \A q \in P : ShortDangling(P, q, min_branch_length)
                                             => Length(p) <= Length(q)
              /\ ~remove_one_by_one =>
                    pass_removed' = {q \in P : ShortDangling(P, q, min_branch_length)}
              /\ EdgesOf(line_cleaned') = EdgesOf(left)
              /\ ~Unmerged(line_cleaned'.parts)
      ]_vars

\* C21, its case: a pass of one by one mode removed one of several short
\* dangling parts and the line merge joined two of the parts it left
C21_Witness ==
    /\ ppc = "loop"
    /\ remove_one_by_one
    /\ Cardinality(pass_removed) = 1
    /\ \E q \in pass_parts \ pass_removed :
          ShortDangling(pass_parts, q, min_branch_length)
    /\ \E p \in line_cleaned.parts : p \notin pass_parts

-----------------------------------------------------------------------------
(* Termination of the pruner (checked under SpecPruneFair) *)

\* the number of edges (parts) the loop holds
EdgeCount == Cardinality(line_cleaned.parts)
\* no part of line_cleaned is left to remove
NothingLeftToRemove ==
    \A p \in line_cleaned.parts :
        ~ShortDangling(line_cleaned.parts, p, min_branch_length)

\* C22 as stated, its part on how the loop ends: a mode ends at a pass that
\* removes nothing or with a single line.
C22_EndsAtFixpointOrSingleLine ==
    ModeEnded =>
        \/ IsLineString(line_cleaned)
        \/ line_cleaned.kind = "MultiLineString" /\ NothingLeftToRemove

\* C22, amended: the pruner returns; a mode ends at a pass that removes
\* nothing, with a single line, or with no line at all; the number of edges
\* never goes up from one pass to the next and goes down in every pass that
\* removes, so that the passes that remove are at most as many as the edges the
\* mode started with.
C22_PruningTerminates ==
    /\ <>(ppc = "returned")
    /\ [](ModeEnded =>
            \/ IsLineString(line_cleaned)
            \/ IsEmpty(line_cleaned)
            \/ line_cleaned.kind = "MultiLineString" /\ NothingLeftToRemove)
    /\ [][ (ppc = "loop" /\ ppc' = "loop") =>
              /\ Cardinality(line_cleaned'.parts) <= EdgeCount
              /\ line_cleaned' # line_cleaned =>
                    Cardinality(line_cleaned'.parts) < EdgeCount ]_vars

\* C22, its case: bulk mode removed every line, one by one mode removed parts,
\* ended with a single line that the line merge joined, and the pruner has
\* returned
C22_Witness ==
    /\ ppc = "returned"
    /\ remove_one_by_one
    /\ IsLineString(line_cleaned)
    /\ Cardinality(EdgesOf(line_cleaned)) < Cardinality(EdgesOf(line))
    /\ \E p \in line_cleaned.parts : p \notin line.parts

-----------------------------------------------------------------------------
(* C23: the recovery of the deduplication step *)

\* the stages the step under way has added
StagesAdded(n) == SubSeq(stages', Len(stages) + 1, Len(stages) + n)
AddsStages(ran) ==
    /\ Len(stages') = Len(stages) + Len(ran)
    /\ SubSeq(stages', 1, Len(stages)) = stages
    /\ StagesAdded(Len(ran)) = ran

\* C23: in the deduplication step, an invalid-ring failure of
\* remove_repeated_points makes the precision snap run exactly once in its place,
\* any other kernel error goes to the exception handler without a snap, and the
\* deduplicated or snapped geometry becomes the Voronoi input only if it is
\* valid: otherwise the input stays the geometry of before the step and the
\* pipeline goes on to the Voronoi step
C23_DedupRecovery ==
    [][pc = "dedup" =>
          /\ geom_for_voronoi.rrp = "error" =>
                /\ pc' = "except"
                /\ error'.type = "GEOSException"
                /\ AddsStages(<<"remove_repeated_points">>)
                /\ geom_for_voronoi' = geom_for_voronoi
          /\ geom_for_voronoi.rrp = "invalid_ring" =>
                /\ pc' = "voronoi"
                /\ AddsStages(<<"remove_repeated_points", "set_precision">>)
                /\ geom_for_voronoi' =
                      IF SetPrecision(geom_for_voronoi).valid
                      THEN SetPrecision(geom_for_voronoi) ELSE geom_for_voronoi
          /\ geom_for_voronoi.rrp = "ok" =>
                /\ pc' = "voronoi"
                /\ AddsStages(<<"remove_repeated_points">>)
                /\ geom_for_voronoi' =
                      IF RemoveRepeatedPoints(geom_for_voronoi).valid
                      THEN RemoveRepeatedPoints(geom_for_voronoi)
                      ELSE geom_for_voronoi
          /\ pc' = "voronoi" => (geom_for_voronoi' # geom_for_voronoi
                                   => geom_for_voronoi'.valid)]_vars

\* the snap has repaired an invalid ring and its result is the Voronoi input
C23_Witness ==
    /\ pc = "voronoi"
    /\ Len(stages) >= 2
    /\ SubSeq(stages, Len(stages) - 1, Len(stages)) =
          <<"remove_repeated_points", "set_precision">>
    /\ geom_for_voronoi.valid
    /\ geom_for_voronoi.rrp = "ok"
    /\ ~GeomIsEmpty(geom_for_voronoi)

-----------------------------------------------------------------------------
(* C24: the retry of the Voronoi construction *)

\* the number of times a stage has run in the call under way
RECURSIVE StageCount(_, _)
StageCount(s, name) ==
    IF s = <<>> THEN 0
    ELSE (IF Head(s) = name THEN 1 ELSE 0) + StageCount(Tail(s), name)

\* the Voronoi construction has failed for good in the call under way
VoronoiFailed ==
    /\ pc \in {"except", "raised"}
    /\ stages # <<>>
    /\ stages[Len(stages)] = "voronoi"

\* C24: the Voronoi construction is attempted at most twice for a polygon; a
\* second attempt is made only after the first has failed on a degenerate point
\* array, and it runs on the snapped geometry; when the second attempt fails
\* too, or the first fails in another way, no further attempt is made and the
\* error is raised with the identity of the polygon in front
C24_VoronoiRetry ==
    /\ [](StageCount(stages, "voronoi") <= 2)
    /\ [](pc = "raised" /\ VoronoiFailed =>
             /\ error.type = "GEOSException"
             /\ error.ident = FormatShort(geom))
    /\ [][pc = "voronoi" =>
             LET g == geom_for_voronoi
                 snapped == SetPrecision(geom_for_voronoi)
             IN  /\ VoronoiOutcome(g) = "ok" =>
                       /\ AddsStages(<<"voronoi">>)
                       /\ pc' = "filter"
                       /\ voronoi_edges' = VoronoiPolygons(g)
                 /\ VoronoiOutcome(g) = "error" =>
                       /\ AddsStages(<<"voronoi">>)
                       /\ pc' = "except"
                       /\ error'.type = "GEOSException"
                 /\ VoronoiOutcome(g) = "degenerate" =>
                       /\ AddsStages(<<"voronoi", "set_precision", "voronoi">>)
                       /\ geom_for_voronoi' = snapped
                       /\ IF VoronoiOutcome(snapped) = "ok"
                          THEN /\ pc' = "filter"
                               /\ voronoi_edges' = VoronoiPolygons(snapped)
                          ELSE /\ pc' = "except"
                               /\ error'.type = "GEOSException"
                 /\ StageCount(stages', "voronoi") = 2 =>
                       VoronoiOutcome(g) = "degenerate"]_vars
    /\ [][VoronoiFailed => StageCount(stages', "voronoi")
                              = StageCount(stages, "voronoi")
                           \/ stages' = <<>> \/ pc' = "entry"]_vars

\* the second attempt has failed too and the error is raised with the identity
C24_Witness ==
    /\ pc = "raised"
    /\ StageCount(stages, "voronoi") = 2
    /\ error.type = "GEOSException"
    /\ error.ident = FormatShort(geom)

\* the second attempt, on the snapped geometry, has succeeded
VoronoiRetrySucceeded ==
    /\ pc = "filter"
    /\ StageCount(stages, "voronoi") = 2

-----------------------------------------------------------------------------
(* C25: average_width is computed lazily *)

\* none of densify_distance, min_branch_length and simplifytolerance is negative
NoNegativeParameter ==
    /\ ~RLt(params.densify_distance, RZero)
    /\ ~RLt(params.min_branch_length, RZero)
    /\ IsNoneNum(params.simplifytolerance)
          \/ ~RLt(params.simplifytolerance, RZero)

\* C25: in one _centerline call average_width is computed at most once, it is
\* the average width of the input polygon, the relative min_branch_length and
\* simplifytolerance are resolved with this one value, and it is not computed
\* at all when none of the three parameters is negative
C25_LazyAverageWidth ==
    /\ StageCount(stages, "average_width") <= 1
    /\ StageCount(stages, "average_width") = 0 <=> IsNoneNum(average_width)
    /\ ~IsNoneNum(average_width) => average_width = AverageWidth(geom)
    /\ NoNegativeParameter => IsNoneNum(average_width)
    /\ ~IsNoneNum(min_branch_length_cur) /\ RLt(params.min_branch_length, RZero) =>
          /\ ~IsNoneNum(average_width)
          /\ min_branch_length_cur =
                RMul(RAbs(params.min_branch_length), average_width)
    /\ ~IsNoneNum(tol) /\ RLt(params.simplifytolerance, RZero) =>
          /\ ~IsNoneNum(average_width)
          /\ tol = RMul(RAbs(params.simplifytolerance), average_width)

\* the three parameters are negative and the call has used one computation
C25_Witness ==
    /\ pc = "done"
    /\ RLt(params.densify_distance, RZero)
    /\ RLt(params.min_branch_length, RZero)
    /\ ~IsNoneNum(params.simplifytolerance)
    /\ RLt(params.simplifytolerance, RZero)
    /\ StageCount(stages, "average_width") = 1
    /\ stages[1] = "average_width"
    /\ ~IsNoneNum(tol)

-----------------------------------------------------------------------------
(* C26: the order of the stages of _centerline *)

\* the stages of the pipeline, in the order of the code
StageOrder ==
    <<"segmentize", "remove_repeated_points", "voronoi", "filter", "prune",
      "simplify", "extend", "normalize">>
StageRank(name) == CHOOSE r \in 1..Len(StageOrder) : StageOrder[r] = name
IsStage(name) == \E r \in 1..Len(StageOrder) : StageOrder[r] = name
Ran(name) == StageCount(stages, name) > 0

\* C26: for a polygon that is not empty the stages run in the order densify,
\* remove repeated points, Voronoi, filter, prune, simplify, extend, normalize,
\* each at most once but for the one retry of the Voronoi construction; prune
\* runs only if min_branch_length resolves to more than 0, extend only if extend
\* is true, and a call that succeeds has run the skeleton stages and ends with
\* normalize
C26_StageOrder ==
    /\ \A i, j \in 1..Len(stages) :
          i < j /\ IsStage(stages[i]) /\ IsStage(stages[j]) =>
             \/ StageRank(stages[i]) < StageRank(stages[j])
             \/ stages[i] = "voronoi" /\ stages[j] = "voronoi"
    /\ \A r \in 1..Len(StageOrder) :
          StageCount(stages, StageOrder[r]) <=
             IF StageOrder[r] = "voronoi" THEN 2 ELSE 1
    /\ Ran("prune") =>
          ~IsNoneNum(min_branch_length_cur) /\ RLt(RZero, min_branch_length_cur)
    /\ Ran("extend") => params.extend
    /\ pc = "done" /\ ~NothingToDo(geom) =>
          /\ Ran("remove_repeated_points")
          /\ Ran("voronoi")
          /\ Ran("filter")
          /\ stages[Len(stages)] = "normalize"

\* a call that has run the eight stages, the Voronoi construction once
C26_Witness ==
    /\ pc = "done"
    /\ \A r \in 1..Len(StageOrder) : StageCount(stages, StageOrder[r]) = 1

-----------------------------------------------------------------------------
(* C27: one by one mode leaves a line (checked under SpecOneByOne) *)

\* _remove_short_branches called on its own with remove_one_by_one=True, for the
\* same lines and lengths as SpecPrune: lines 303-304, the input is returned
OneByOneEarlyReturn ==
    /\ ppc = "entry"
    /\ NothingToClean(line, min_branch_length)
    /\ remove_one_by_one' = TRUE
    /\ line_cleaned' = line
    /\ ppc' = "after"
    /\ UNCHANGED <<line, min_branch_length, pass_parts, pass_removed>>
    /\ UNCHANGED <<lvars, cvars>>
\* line 307: the loop starts from the normalized input
OneByOneStart ==
    /\ ppc = "entry"
    /\ ~NothingToClean(line, min_branch_length)
    /\ remove_one_by_one' = TRUE
    /\ line_cleaned' = Normalize(line)
    /\ ppc' = "loop"
    /\ UNCHANGED <<line, min_branch_length, pass_parts, pass_removed>>
    /\ UNCHANGED <<lvars, cvars>>
\* the pruner, or one by one mode at once: what the second call of
\* _remove_short_branches_notempty would give for any line
OneByOneNext ==
    \/ OneByOneEarlyReturn
    \/ OneByOneStart
    \/ PruneNext
SpecOneByOne == InitPrune /\ [][OneByOneNext]_vars

\* the value returned is the input line, taken because one by one mode ended
\* None or empty
FallbackTaken ==
    /\ ppc = "returned"
    /\ remove_one_by_one
    /\ NoneOrEmpty(line_cleaned)
    /\ lines = line

\* C27: when the input line has an edge, one by one mode holds a line with an
\* edge at every pass and at its end, so the input line is returned in place of
\* an empty one by one result only when the input line has no edge itself
C27_OneByOneNeverEmpty ==
    /\ remove_one_by_one /\ EdgesOf(line) # {} =>
          /\ ~NoneOrEmpty(line_cleaned)
          /\ EdgesOf(line_cleaned) # {}
    /\ FallbackTaken => EdgesOf(line) = {}

\* one by one mode has removed parts of a line with edges and has ended with a
\* line
C27_Witness ==
    /\ ModeEnded
    /\ remove_one_by_one
    /\ EdgesOf(line) # {}
    /\ pass_removed # {}
    /\ EdgesOf(line_cleaned) # {}
    /\ EdgesOf(line_cleaned) # EdgesOf(line)

-----------------------------------------------------------------------------
(* C28: the connected components of the input line (checked under            *)
(* SpecOneByOne)                                                              *)

\* the connected component of edge e in the input line
ComponentOf(e) == {f \in EdgesOf(line) : ConnectedIn(EdgesOf(line), e, f)}
\* no edge of the component of e is in the line returned
Erased(e) == ComponentOf(e) \cap EdgesOf(lines) = {}

-----------------------------------------------------------------------------
(* simplify_coords_lang_idx (src/pygeoops/_simplify_lang.py, 69-185).  The    *)
(* arguments of the call are in params (the number of coordinates, lookahead *)
(* and simplify_lookahead_points), its locals in the record result, its      *)
(* position in cpc.  The coordinates and the tolerance show only in the      *)
(* outcome of the distance tests, which is left open.                        *)

\* the calls explored: 0..MaxPoints coordinates, lookahead from -MaxLookahead to
\* MaxLookahead
MaxPoints == 4
MaxLookahead == 3
\* Python integers have no lower limit; below -MaxDepth every position of the
\* window behaves alike (an empty range, empty slices, both exit tests false),
\* and window_end is kept there
MaxDepth == 8

Smaller(a, b) == IF a < b THEN a ELSE b
Larger(a, b) == IF a < b THEN b ELSE a

\* the position a slice bound x stands for in an array of n elements
SliceIdx(x, n) == IF x < 0 THEN Larger(x + n, 0) ELSE Smaller(x, n)
\* element i (from 0) of an array of n elements is in the slice [a:b]
InSlice(i, a, b, n) == SliceIdx(a, n) <= i /\ i < SliceIdx(b, n)
\* lines 144, 167: mask_idx_to_keep[a:b] = False
MaskSlice(mask, a, b) ==
    [i \in 1..Len(mask) |->
        IF InSlice(i - 1, a, b, Len(mask)) THEN FALSE ELSE mask[i]]
\* line 162: mask_idx_to_keep[a:b].any()
AnyInSlice(mask, a, b) ==
    \E i \in 1..Len(mask) : InSlice(i - 1, a, b, Len(mask)) /\ mask[i]

\* lines 104-114: the locals before the loop
LangLocals(nb_points, lookahead) ==
    LET window_size == IF lookahead = -1 THEN nb_points - 1
                       ELSE Smaller(lookahead, nb_points - 1)
    IN  [window_size |-> window_size,
         window_start |-> 0,
         window_end |-> window_size,
         mask_idx_to_keep |-> [i \in 1..nb_points |-> TRUE],
         points_outside_tolerance_found |-> FALSE]

\* the call, lines 96-114
LangEnter ==
    /\ cpc = "idle"
    /\ \E nb_points \in 0..MaxPoints :
       \E lookahead \in (-MaxLookahead)..MaxLookahead :
       \E simplify_lookahead_points \in BOOLEAN :
          /\ params' = [nb_points |-> nb_points, lookahead |-> lookahead,
                        simplify_lookahead_points |-> simplify_lookahead_points]
          /\ result' = LangLocals(nb_points, lookahead)
    /\ cpc' = "test"
    /\ UNCHANGED <<geometry, returned, error, completed, lvars, pvars>>

\* lines 117-132: the distance tests of the points between window_start and
\* window_end; with no point between them none is outside the tolerance
WindowTest ==
    /\ cpc = "test"
    /\ \E found \in IF result.window_start + 1 < result.window_end
                    THEN BOOLEAN ELSE {FALSE} :
          result' = [result EXCEPT !.points_outside_tolerance_found = found]
    /\ cpc' = "move"
    /\ UNCHANGED <<geometry, params, returned, error, completed, lvars, pvars>>

\* lines 135-167: the locals after the window was made smaller or was masked
WindowMoved(l, simplify_lookahead_points) ==
    IF l.points_outside_tolerance_found
    THEN [l EXCEPT !.window_end = l.window_end - 1]
    ELSE IF ~simplify_lookahead_points
    THEN [l EXCEPT !.mask_idx_to_keep =
                       MaskSlice(l.mask_idx_to_keep, l.window_start + 1,
                                 l.window_end),
                   !.window_start = l.window_end]
    ELSE IF ~AnyInSlice(l.mask_idx_to_keep, l.window_start + 1, l.window_end)
    THEN [l EXCEPT !.window_start = l.window_end]
    ELSE [l EXCEPT !.mask_idx_to_keep =
                       MaskSlice(l.mask_idx_to_keep, l.window_start + 1,
                                 l.window_end)]

\* line 169: the test that ends the loop
LangBreak(l, nb_points) ==
    l.window_start >= nb_points - 1 \/ l.window_end >= nb_points - 1

\* lines 171-173: the end of the next window
NextWindowEnd(l, nb_points) ==
    IF l.window_end + l.window_size >= nb_points THEN nb_points - 1
    ELSE Larger(l.window_end + l.window_size, -MaxDepth)

\* lines 134-176: the window is made smaller, or is masked and moved; the loop
\* then ends or goes on with the next window
WindowMove ==
    /\ cpc = "move"
    /\ \E l \in {WindowMoved(result, params.simplify_lookahead_points)} :
          IF result.points_outside_tolerance_found
          THEN /\ result' = l
               /\ cpc' = "test"
               /\ UNCHANGED returned
          ELSE IF LangBreak(l, params.nb_points)
          THEN /\ result' = l
               /\ cpc' = "returned"
               /\ returned' = {i - 1 : i \in {j \in 1..params.nb_points :
                                                 l.mask_idx_to_keep[j]}}
          ELSE /\ result' = [l EXCEPT !.window_end =
                                         NextWindowEnd(l, params.nb_points)]
               /\ cpc' = "test"
               /\ UNCHANGED returned
    /\ UNCHANGED <<geometry, params, error, completed, lvars, pvars>>

InitLang ==
    /\ geometry = [ctype |-> "None", geoms |-> <<>>, index |-> <<>>]
    /\ params = [nb_points |-> 0, lookahead |-> 8,
                 simplify_lookahead_points |-> FALSE]
    /\ cpc = "idle"
    /\ result = LangLocals(0, 8)
    /\ returned = NoValue
    /\ error = NoError
    /\ completed = <<>>
    /\ IdleLocals
    /\ IdlePruner

LangNext == LangEnter \/ WindowTest \/ WindowMove
\* the loop is run by one thread that nothing holds up: a step that can be taken
\* is taken
SpecLang == InitLang /\ [][LangNext]_vars /\ WF_vars(LangNext)

-----------------------------------------------------------------------------
(* C29: the Lang window loop (checked under SpecLang) *)

\* C29 as stated: the loop of simplify_coords_lang_idx ends, for every number of
\* coordinates, every lookahead and both values of simplify_lookahead_points,
\* whatever the distance tests give.
C29_LangTerminates == (cpc = "test") ~> (cpc = "returned")

\* the lookahead values the loop ends for: -1 and the positive ones
LookaheadInRange == params.lookahead = -1 \/ params.lookahead >= 1
\* with a lookahead of -1 or of at least 1 the loop ends
LangTerminatesInRange ==
    (cpc = "test" /\ LookaheadInRange) ~> (cpc = "returned")
\* an iteration with a lookahead of -1 or of at least 1 makes window_end
\* smaller, not below window_start + 1, or moves window_start or window_end
\* forward, or ends the loop
LangProgressInRange ==
    [][cpc = "move" /\ LookaheadInRange =>
          \/ result'.window_end < result.window_end
                /\ result'.window_end > result.window_start
          \/ result'.window_start > result.window_start
          \/ result'.window_end > result.window_end
          \/ cpc' = "returned"]_vars
\* a loop that cannot end: no point to test, window_end not above window_start,
\* and a window that does not reach the last point
LangStuck ==
    /\ cpc = "test"
    /\ params.lookahead = 0
    /\ params.nb_points >= 2
    /\ result.window_start = 0
    /\ result.window_end = 0

-----------------------------------------------------------------------------
(* difference_all_tiled, the parallel path (src/pygeoops/_difference.py,      *)
(* 77-117).  The locals of the call are in the record result: the array      *)
(* geom_diff and the futures in the order of their submission, each with the *)
(* index it stands for in the dict futures, the tile it was submitted with,  *)
(* its state in the pool and its result.  cpc is the position of the main    *)
(* thread.  A tile is its number and the number of times the geometries were *)
(* subtracted from it.                                                       *)

\* the number of tiles _split_if_needed gave: one more than the 10 of line 78
MaxTiles == 11
\* line 78: the number of parts above which the pool is used
parallel_above == 10
\* line 80: nb_workers = min(len(geom_diff), 4)
nb_workers(geom_diff) == Smaller(Len(geom_diff), 4)

Tile(i) == [tile |-> i, subtracted |-> 0]
NoTile == [tile |-> 0, subtracted |-> 0]
\* difference_all(tile, geometries_to_subtract[geoms_to_subtract_idx], ...)
difference_all(g) == [g EXCEPT !.subtracted = @ + 1]
\* shapely.is_empty of a tile: the geometries to subtract cover every fourth tile
is_empty(g) == g.subtracted > 0 /\ g.tile % 4 = 0

\* a variant of TargetIndex that takes the rank of the future among the completed
TargetIndexByCompletion(futures, f) ==
    Cardinality({g \in 1..Len(futures) : futures[g].yielded}) + 1

\* line 96: futures[future], the index the future was submitted for
TargetIndex(futures, f) == futures[f].idx

\* lines 83-90: the main thread submits the next tile
Submit ==
    /\ cpc = "submit"
    /\ Len(result.geom_diff) > parallel_above
    /\ Len(result.futures) < Len(result.geom_diff)
    /\ LET idx == Len(result.futures) + 1
       IN  /\ result' = [result EXCEPT !.futures =
                            Append(@, [idx |-> idx, arg |-> result.geom_diff[idx],
                                       state |-> "queued", res |-> NoTile,
                                       yielded |-> FALSE])]
           /\ cpc' = IF idx = Len(result.geom_diff) THEN "collect" ELSE "submit"
    /\ UNCHANGED <<geometry, params, returned, error, completed, lvars, pvars>>

\* the pool: a free worker takes the oldest future of the queue
WorkerStart ==
    /\ cpc \in {"submit", "collect"}
    /\ Cardinality({g \in 1..Len(result.futures) :
                       result.futures[g].state = "running"})
          < nb_workers(result.geom_diff)
    /\ \E f \in 1..Len(result.futures) :
          /\ result.futures[f].state = "queued"
          /\ \A g \in 1..(f - 1) : result.futures[g].state # "queued"
          /\ result' = [result EXCEPT !.futures[f].state = "running"]
    /\ UNCHANGED <<geometry, params, cpc, returned, error, completed, lvars, pvars>>

\* the pool: a worker ends its call of difference_all
WorkerFinish ==
    /\ cpc \in {"submit", "collect"}
    /\ \E f \in 1..Len(result.futures) :
          /\ result.futures[f].state = "running"
          /\ result' = [result EXCEPT
                           !.futures[f].state = "done",
                           !.futures[f].res = difference_all(result.futures[f].arg)]
    /\ UNCHANGED <<geometry, params, cpc, returned, error, completed, lvars, pvars>>

\* lines 92-94: as_completed gives a future that is done, its result goes in the
\* array
CollectFuture ==
    /\ cpc = "collect"
    /\ \E f \in 1..Len(result.futures) :
          /\ result.futures[f].state = "done"
          /\ ~result.futures[f].yielded
          /\ \E idx \in {TargetIndex(result.futures, f)} :
                result' = [result EXCEPT
                              !.geom_diff[idx] = result.futures[f].res,
                              !.futures[f].yielded = TRUE]
    /\ UNCHANGED <<geometry, params, cpc, returned, error, completed, lvars, pvars>>

\* lines 105-117: the tiles that are not empty; their union stands for the result
DiffResult(geom_diff) ==
    {geom_diff[i] : i \in {j \in 1..Len(geom_diff) : ~is_empty(geom_diff[j])}}

\* lines 98-103: the array after the sequential loop over the same tiles
SequentialTiles(tiles) == [i \in 1..Len(tiles) |-> difference_all(tiles[i])]

\* lines 92-117: every future was given by as_completed, the result is returned
DiffReturn ==
    /\ cpc = "collect"
    /\ \A f \in 1..Len(result.futures) : result.futures[f].yielded
    /\ returned' = DiffResult(result.geom_diff)
    /\ cpc' = "returned"
    /\ UNCHANGED <<geometry, params, result, error, completed, lvars, pvars>>

InitDiff ==
    /\ geometry = [ctype |-> "scalar", geoms |-> <<>>, index |-> <<>>]
    /\ params = [keep_geom_type |-> FALSE]
    /\ cpc = "submit"
    /\ result = [geom_diff |-> [i \in 1..MaxTiles |-> Tile(i)], futures |-> <<>>]
    /\ returned = NoValue
    /\ error = NoError
    /\ completed = <<>>
    /\ IdleLocals
    /\ IdlePruner

DiffNext == Submit \/ WorkerStart \/ WorkerFinish \/ CollectFuture \/ DiffReturn
SpecDiff == InitDiff /\ [][DiffNext]_vars

-----------------------------------------------------------------------------
(* C30: the parallel path of difference_all_tiled (checked under SpecDiff) *)

\* the tiles the call started with
InputTiles == [i \in 1..Len(result.geom_diff) |-> Tile(i)]

\* C30: every tile is submitted once, as it was split, for its own index; entry
\* i of the array is the tile as split until the future of tile i was given by
\* as_completed and the difference computed for tile i from then on, in whatever
\* order the futures end; the value returned is the one of the sequential loop
\* over the same tiles
C30_ParallelTiles ==
    /\ \A f \in 1..Len(result.futures) :
          /\ result.futures[f].idx = f
          /\ result.futures[f].arg = InputTiles[f]
          /\ result.futures[f].yielded => result.futures[f].state = "done"
          /\ result.futures[f].state = "done" =>
                result.futures[f].res = difference_all(InputTiles[f])
    /\ \A i \in 1..Len(result.geom_diff) :
          result.geom_diff[i] =
             IF i <= Len(result.futures) /\ result.futures[i].yielded
             THEN difference_all(InputTiles[i]) ELSE InputTiles[i]
    /\ cpc = "returned" =>
          /\ Len(result.futures) = Len(result.geom_diff)
          /\ \A i \in 1..Len(result.geom_diff) : result.geom_diff[i].subtracted = 1
          /\ result.geom_diff = SequentialTiles(InputTiles)
          /\ returned = DiffResult(SequentialTiles(InputTiles))

\* as_completed has given the future of the last tile before the one of the
\* first tile, whose entry is still the tile as split
C30_Witness ==
    /\ cpc = "collect"
    /\ Len(result.futures) = MaxTiles
    /\ result.futures[MaxTiles].yielded
    /\ result.geom_diff[MaxTiles] = difference_all(Tile(MaxTiles))
    /\ ~result.futures[1].yielded
    /\ result.geom_diff[1] = Tile(1)

====
